---- MODULE Spec2Model ----
(***************************************************************************)
(* A model of the AI-likelihood scoring engine of the textflow repository  *)
(* (src/engines/aiDetection) and of the text processor worker              *)
(* (src/workers/workerManager.ts).                                         *)
(*                                                                         *)
(* Texts are TLA+ strings; a character is a string of length 1.  Numbers   *)
(* that the code keeps as doubles are kept as scaled integers: the scale   *)
(* is part of the name (Milli = thousandths, Centi = hundredths,           *)
(* Deci = tenths), and a value that the code can produce as NaN or as an   *)
(* infinity is a record [kind, v] (see JS numbers below).                  *)
(***************************************************************************)
EXTENDS Integers, Sequences, FiniteSets, Bags, TLC

(***************************************************************************)
(* Characters and the regular-expression classes the code uses             *)
(***************************************************************************)
LowerLetters == "abcdefghijklmnopqrstuvwxyz"
UpperLetters == "ABCDEFGHIJKLMNOPQRSTUVWXYZ"

Ch(s, i) == SubSeq(s, i, i)

CharsOf(s) == {Ch(s, i) : i \in 1..Len(s)}

\* \s of a JavaScript regular expression (the ASCII members of the class)
WhiteSpace == {" ", "\t", "\n", "\r", "\f"}

\* \w of a JavaScript regular expression
WordChars == CharsOf(LowerLetters) \cup CharsOf(UpperLetters) \cup CharsOf("0123456789") \cup {"_"}

\* [.!?] : the sentence terminators
SentenceEnd == {".", "!", "?"}

\* String.prototype.toLowerCase, one character
LowerChar(c) ==
  LET IndexIn(s) == IF \E i \in 1..Len(s) : Ch(s, i) = c
                    THEN CHOOSE i \in 1..Len(s) : Ch(s, i) = c
                    ELSE 0
      Lower(i) == IF i = 0 THEN c ELSE Ch(LowerLetters, i)
  IN Lower(IndexIn(UpperLetters))

Max(a, b) == IF a >= b THEN a ELSE b
Min(a, b) == IF a <= b THEN a ELSE b
Abs(a) == IF a < 0 THEN 0 - a ELSE a

\* the least and the greatest member of a non-empty finite set of integers
SetMin(S) == CHOOSE i \in S : \A j \in S : i <= j
SetMax(S) == CHOOSE i \in S : \A j \in S : i >= j

\* the members of a finite set of integers in increasing order
SortedSeq(S) == [k \in 1..Cardinality(S) |-> CHOOSE i \in S : Cardinality({j \in S : j < i}) = k - 1]

RECURSIVE ConcatRange(_, _, _)
\* the concatenation parts[lo] \o ... \o parts[hi] of strings, by halves
ConcatRange(parts, lo, hi) ==
  IF lo > hi THEN ""
  ELSE IF lo = hi THEN parts[lo]
  ELSE LET mid == (lo + hi) \div 2
       IN ConcatRange(parts, lo, mid) \o ConcatRange(parts, mid + 1, hi)

\* s with every character c replaced by f[c] (f a function on the characters of s)
MapChars(s, f) == ConcatRange([i \in 1..Len(s) |-> f[Ch(s, i)]], 1, Len(s))

toLowerCase(s) == MapChars(s, [c \in CharsOf(s) |-> LowerChar(c)])

\* s.replace(/[^keep]/g, ' ')
ReplaceOutside(s, keep) == MapChars(s, [c \in CharsOf(s) |-> IF c \in keep THEN c ELSE " "])

\* the indices at which a maximal run of non-separator characters starts
PieceStarts(s, seps) ==
  {i \in 1..Len(s) : Ch(s, i) \notin seps /\ (i = 1 \/ Ch(s, i - 1) \in seps)}

\* the index at which the run of non-separator characters starting at i ends
PieceEnd(s, seps, i) ==
  CHOOSE j \in i..Len(s) : /\ j = Len(s) \/ Ch(s, j + 1) \in seps
                           /\ \A k \in i..j : Ch(s, k) \notin seps

\* String.prototype.split(/[seps]+/): the pieces between the maximal runs of
\* separator characters; a leading or trailing run yields an empty piece and
\* the empty string yields one empty piece
Split(s, seps) ==
  LET starts == SortedSeq(PieceStarts(s, seps))
  IN (IF Len(s) = 0 \/ Ch(s, 1) \in seps THEN << "" >> ELSE << >>)
     \o [k \in 1..Len(starts) |-> SubSeq(s, starts[k], PieceEnd(s, seps, starts[k]))]
     \o (IF Len(s) > 0 /\ Ch(s, Len(s)) \in seps THEN << "" >> ELSE << >>)

\* Array.prototype.filter(x => x.length > 0)
NonEmpty(seq) == SelectSeq(seq, LAMBDA x : Len(x) > 0)

\* String.prototype.trim
Trim(s) ==
  LET kept == {i \in 1..Len(s) : Ch(s, i) \notin WhiteSpace}
  IN IF kept = {} THEN "" ELSE SubSeq(s, SetMin(kept), SetMax(kept))

\* the function f as the table of its values, each computed once
Table(f) == f @@ << >>

\* Array.prototype.join(' ')
RECURSIVE JoinWords(_)
JoinWords(ws) ==
  IF Len(ws) = 0 THEN ""
  ELSE IF Len(ws) = 1 THEN ws[1]
  ELSE ws[1] \o " " \o JoinWords(Tail(ws))

\* the sum of f[x] over the x of the finite set S: the positive terms are a
\* bag and the negative terms, negated, another
SumOver(S, f) ==
  BagCardinality([x \in {y \in S : f[y] > 0} |-> f[x]])
  - BagCardinality([x \in {y \in S : f[y] < 0} |-> 0 - f[x]])

\* Array.prototype.reduce((a, b) => a + b, 0)
SumSeq(seq) == SumOver(DOMAIN seq, seq)

\* Math.round of the rational n/d (d > 0): the nearest integer, a half
\* rounded towards plus infinity
RoundDiv(n, d) == (2 * n + d) \div (2 * d)

(***************************************************************************)
(* Fixed-point base-2 logarithm and power.  Math.log2 and Math.pow are     *)
(* library functions on doubles; here a logarithm is an integer number of  *)
(* 1/4096ths and a mantissa an integer number of 1/16384ths.               *)
(***************************************************************************)
RECURSIVE FloorLog2(_, _)
\* the largest k with d * 2^k <= n, for n >= d > 0
FloorLog2(n, d) == IF n < 2 * d THEN 0 ELSE 1 + FloorLog2(n, 2 * d)

RECURSIVE Mantissa(_, _, _, _)
\* the first `bits` binary digits of r/d, for 0 <= r < d
Mantissa(r, d, bits, acc) ==
  IF bits = 0 THEN acc
  ELSE IF 2 * r >= d THEN Mantissa(2 * r - d, d, bits - 1, 2 * acc + 1)
  ELSE Mantissa(2 * r, d, bits - 1, 2 * acc)

RECURSIVE LogFrac(_, _, _)
\* the first `bits` binary digits of log2(y / 16384), for 16384 <= y < 32768
LogFrac(y, bits, acc) ==
  IF bits = 0 THEN acc
  ELSE LET sq == (y * y) \div 16384
       IN IF sq >= 32768 THEN LogFrac(sq \div 2, bits - 1, 2 * acc + 1)
          ELSE LogFrac(sq, bits - 1, 2 * acc)

\* 4096 * Math.log2(n / d), for n >= d > 0
Log2Ratio(n, d) ==
  LET k == FloorLog2(n, d)
      d0 == d * 2^k
  IN 4096 * k + LogFrac(16384 + Mantissa(n - d0, d0, 14, 0), 12, 0)

\* 16384 * 2^(1/2), 16384 * 2^(1/4), ..., 16384 * 2^(1/4096)
PowTable == << 23170, 19484, 17867, 17109, 16743, 16562, 16473, 16428, 16406, 16395, 16390, 16387 >>

RECURSIVE PowFrac(_, _, _)
PowFrac(f, i, y) ==
  IF i > 12 THEN y
  ELSE PowFrac(f, i + 1, IF (f \div 2^(12 - i)) % 2 = 1 THEN (y * PowTable[i]) \div 16384 ELSE y)

\* Math.round(100 * Math.pow(2, a / 4096)), for a >= 0
Pow2Centi(a) ==
  LET k == a \div 4096
      y == PowFrac(a % 4096, 1, 16384)
  IN IF k >= 14 THEN 100 * y * 2^(k - 14) ELSE (100 * y + 2^(13 - k)) \div 2^(14 - k)

(***************************************************************************)
(* The inputs of the model.                                                *)
(***************************************************************************)
\* the greatest number of engines constructed
MaxEngines == 2

\* the number of equal steps into which [0, 100] is cut for determineVerdict
VerdictGrid == 20

\* the number of equal steps into which [0, 1] is cut for the coefficient of
\* variation handed to scoreBurstiness
CvGrid == 20

\* the number of equal steps into which the perplexities [0, 100] and the
\* burstiness indexes [0, 1] are cut for calculateConfidence
ConfidenceGrid == 8

\* the number of equal steps into which the perplexities [0, 100] are cut
\* for scorePerplexity
PerplexityGrid == 20

\* the number of equal steps into which the stylometry and the fingerprint
\* scores [0, 100] are cut for generateRecommendations and buildDetails
ScoreGrid == 5

\* how far from each threshold of scoreStylometry the features handed to it lie
StyleSpread == 1

\* the fingerprint detection is applied to up to MaxMarkers markers found in
\* up to MaxWords words
MaxMarkers == 4
MaxWords == 60

\* NGramModel.probability is called with contexts of up to MaxContext words
MaxContext == 3

\* executeTask is called up to MaxTasks times
MaxTasks == 2

\* the weights handed to the constructor: none, a partial override, or all
\* five (each of them 1)
Overrides ==
  { [k \in {} |-> 0],
    [k \in {"perplexity"} |-> 50],
    [k \in {"entropy", "fingerprint"} |-> IF k = "entropy" THEN 0 ELSE 40],
    [k \in {"perplexity", "burstiness", "entropy", "stylometry", "fingerprint"} |-> 100] }

\* the texts handed to analyze
Texts ==
  { "",
    "   ",
    " \n\t ",
    "hello world",
    "one two three four five six seven eight nine",
    " a b c d e f g h ",
    "! ! ! ! ! ! ! ! ! !",
    "x x was it x mat mat x x sat",
    "Moreover, we delve. Furthermore, it is clear. Additionally, this works.",
    "Moreover, we delve. Furthermore, it is very clear. Additionally, this works.",
    "Thus, the cat sat on the mat and it was happy.",
    "A meticulous plan and a Meticulous team work meticulously in the realm.",
    "The cat sat on the mat. It was happy. The sun was warm and the day was long.",
    "The quick brown fox jumps over the lazy dog and runs away.",
    "We go home now. They eat food here. You see them there.",
    "In conclusion, first, the plan is defined as good. Second, it works; finally, done." }

(***************************************************************************)
(* PerplexityCalculator.ts: the n-gram model                               *)
(***************************************************************************)
TRAINING_CORPUS == <<
  "the quick brown fox jumps over the lazy dog",
  "research shows that many factors contribute to outcomes",
  "studies have demonstrated various approaches to solving problems",
  "in conclusion evidence suggests several important findings",
  "furthermore additional research reveals new insights about",
  "these findings indicate that future work should explore",
  "however there are limitations that should be considered",
  "moreover results contribute to our understanding of",
  "nevertheless this study provides valuable evidence for",
  "the data analysis reveals significant patterns in results",
  "on the other hand some researchers argue that",
  "it is important to note that these results show",
  "subsequent experiments confirmed these initial observations",
  "despite these challenges methodology proved effective",
  "the theoretical framework suggests that relationships exist between",
  "empirical evidence supports the hypothesis that",
  "statistical analysis demonstrates correlation between variables",
  "qualitative data reveals nuanced insights about",
  "quantitative measurements indicate substantial variation in",
  "preliminary findings suggest potential applications for",
  "hey what's up I was wondering if you could help",
  "thanks so much for your time and consideration",
  "I think this is a really interesting point",
  "to be honest I'm not completely sure about this",
  "let me know what you think when you get a chance",
  "sorry for the delay in getting back to you",
  "that makes sense I hadn't thought of it that way",
  "great idea let's definitely move forward with that",
  "I appreciate you bringing this to my attention",
  "no worries at all these things happen",
  "the old house stood silently against the stormy sky",
  "she walked through the garden remembering childhood memories",
  "music filled the room with warmth and nostalgia",
  "the city lights reflected in the puddles below",
  "time seemed to slow down as the moment approached",
  "his words hung in the air like fragile glass",
  "the story unfolded like a carefully crafted tapestry",
  "shadows danced across the walls in the moonlight",
  "the scent of rain brought back forgotten feelings",
  "every corner held secrets waiting to be discovered",
  "the system architecture supports multiple concurrent users",
  "implementation requires careful consideration of edge cases",
  "performance metrics indicate significant improvement over baseline",
  "the API documentation provides comprehensive usage examples",
  "debugging revealed several memory allocation issues",
  "the deployment process includes automated testing stages",
  "security protocols must be strictly enforced at all levels",
  "the database schema normalization reduces redundancy",
  "code review identified potential optimization opportunities",
  "the integration test suite covers all major use cases",
  "although the initial results were promising further investigation revealed unexpected complications",
  "despite extensive preparation the project encountered numerous challenges that required immediate attention",
  "the comprehensive analysis demonstrated clear correlations between variables previously thought to be independent",
  "while the theoretical framework provides a solid foundation practical implementation requires additional considerations",
  "given the complexity of the issue a multidisciplinary approach offers the most promising path forward"
>>

\* new NGramModel(3)
NGramOrder == 3

\* a model before training: the field initialisers of NGramModel
EmptyModel == [frequencies |-> << >>, contextCounts |-> << >>, totalTokens |-> 0]

\* NGramModel.tokenize
NGramTokenize(text) ==
  NonEmpty(Split(ReplaceOutside(toLowerCase(text), WordChars \cup WhiteSpace), WhiteSpace))

\* Map.get(key) || 0
GetOr0(map, key) == IF key \in DOMAIN map THEN map[key] ELSE 0

\* one iteration of the inner loop of NGramModel.train; MapSet is
\* Map.set(key, value)
Observe(m, context, word) ==
  LET MapSet(map, key, value) == (key :> value) @@ map
      contextFreq == IF context \in DOMAIN m.frequencies THEN m.frequencies[context] ELSE << >>
  IN [frequencies |->
        MapSet(m.frequencies, context, MapSet(contextFreq, word, GetOr0(contextFreq, word) + 1)),
      contextCounts |->
        MapSet(m.contextCounts, context, GetOr0(m.contextCounts, context) + 1),
      totalTokens |-> m.totalTokens + 1]

RECURSIVE TrainTokens(_, _, _)
\* the inner loop of NGramModel.train, from index i (counted from 1)
TrainTokens(m, tokens, i) ==
  IF i > Len(tokens) - NGramOrder + 1 \/ m.totalTokens < 0 THEN m
  ELSE TrainTokens(Observe(m, JoinWords(SubSeq(tokens, i, i + NGramOrder - 2)),
                           tokens[i + NGramOrder - 1]),
                   tokens, i + 1)

RECURSIVE TrainRange(_, _, _, _)
\* the outer loop of NGramModel.train over corpus[lo..hi], by halves
TrainRange(m, corpus, lo, hi) ==
  IF lo > hi \/ m.totalTokens < 0 THEN m
  ELSE IF lo = hi THEN TrainTokens(m, NGramTokenize(corpus[lo]), 1)
  ELSE LET mid == (lo + hi) \div 2
       IN TrainRange(TrainRange(m, corpus, lo, mid), corpus, mid + 1, hi)

\* NGramModel.train
train(m, corpus) == TrainRange(m, corpus, 1, Len(corpus))

\* the sum of contextCounts over the contexts of frequencies
ContextTotal(m) ==
  SumOver(DOMAIN m.frequencies, [c \in DOMAIN m.frequencies |-> GetOr0(m.contextCounts, c)])

\* NGramModel.continuationProbability, as the fraction << numerator, denominator >>
\* (both multiplied by 10, so that the 0.1 of the code is 1)
continuationProbability(m, word) ==
  LET f == m.frequencies
      continuationCount ==
        SumOver({c \in DOMAIN f : word \in DOMAIN f[c]},
                [c \in DOMAIN f |-> GetOr0(m.contextCounts, c)])
  IN << 10 * continuationCount + 1, 10 * ContextTotal(m) + Cardinality(DOMAIN f) >>

\* the unigram branch without the 0.1 added to the count and, for each
\* context, to the total
UnigramProbabilityUnsmoothed(m, word) ==
  LET f == m.frequencies
      wordCount == SumOver(DOMAIN f, [c \in DOMAIN f |-> GetOr0(f[c], word)])
  IN << 10 * wordCount, 10 * ContextTotal(m) >>

\* the unigram branch of NGramModel.backoffProbability
UnigramProbability(m, word) ==
  LET f == m.frequencies
      wordCount == SumOver(DOMAIN f, [c \in DOMAIN f |-> GetOr0(f[c], word)])
  IN << 10 * wordCount + 1, 10 * ContextTotal(m) + Cardinality(DOMAIN f) >>

RECURSIVE probability(_, _, _)
RECURSIVE backoffProbability(_, _, _)
\* NGramModel.probability, as the fraction << numerator, denominator >>;
\* D = 0.75 is 3/4
probability(m, word, context) ==
  LET contextStr == JoinWords(context)
      contextCount == GetOr0(m.contextCounts, contextStr)
  IN IF contextCount = 0 THEN backoffProbability(m, word, context)
     ELSE IF contextStr \notin DOMAIN m.frequencies THEN backoffProbability(m, word, context)
     ELSE LET contextFreq == m.frequencies[contextStr]
              wordCount == GetOr0(contextFreq, word)
              uniqueWords == Cardinality(DOMAIN contextFreq)
              cp == continuationProbability(m, word)
          IN << Max(0, 4 * wordCount - 3) * cp[2] + 3 * uniqueWords * cp[1],
                4 * contextCount * cp[2] >>

\* NGramModel.backoffProbability
backoffProbability(m, word, context) ==
  LET shorterContext == IF Len(context) = 0 THEN << >> ELSE Tail(context)
  IN IF Len(shorterContext) = 0 THEN UnigramProbability(m, word)
     ELSE probability(m, word, shorterContext)

(***************************************************************************)
(* PerplexityCalculator.ts: PerplexityCalculator                           *)
(***************************************************************************)
\* PerplexityCalculator.tokenize
PerplexityTokenize(text) ==
  NonEmpty(Split(ReplaceOutside(toLowerCase(text), WordChars \cup WhiteSpace \cup {"'", "-"}),
                 WhiteSpace))

\* the probabilities of the loop of PerplexityCalculator.calculate
TokenProbabilities(m, tokens) ==
  [i \in 1..Len(tokens) |-> probability(m, tokens[i], SubSeq(tokens, Max(1, i - 2), i - 1))]

\* PerplexityCalculator.interpretPerplexity
interpretPerplexity(perplexityCenti) ==
  IF perplexityCenti < 1500 THEN "highly-predictable"
  ELSE IF perplexityCenti < 3000 THEN "predictable"
  ELSE IF perplexityCenti < 7000 THEN "natural"
  ELSE "highly-variable"

\* PerplexityCalculator.calculate; perplexity in hundredths.  NegLog2(q) is
\* -4096 * Math.log2(q) of a probability q = << numerator, denominator >> > 0
calculate(m, text) ==
  LET NegLog2(q) == IF q[2] >= q[1] THEN Log2Ratio(q[2], q[1]) ELSE 0 - Log2Ratio(q[1], q[2])
      tokens == PerplexityTokenize(text)
  IN IF Len(tokens) < 5
     THEN [perplexity |-> 0, tokenCount |-> Len(tokens), interpretation |-> "natural"]
     ELSE LET probs == TokenProbabilities(m, tokens)
              logProbabilities == SelectSeq(probs, LAMBDA p : p[1] > 0)
          IN IF Len(logProbabilities) = 0
             THEN [perplexity |-> 10000, tokenCount |-> Len(tokens), interpretation |-> "natural"]
             ELSE LET negSum == SumSeq([i \in 1..Len(logProbabilities) |-> NegLog2(logProbabilities[i])])
                      perplexity == Pow2Centi(Max(0, negSum) \div Len(logProbabilities))
                  IN [perplexity |-> perplexity,
                      tokenCount |-> Len(logProbabilities),
                      interpretation |-> interpretPerplexity(perplexity)]

(***************************************************************************)
(* JS numbers that can be NaN or infinite: [kind, v], the value v (in the  *)
(* unit the field's name gives) meaningful when kind = "finite".           *)
(***************************************************************************)
Finite(v) == [kind |-> "finite", v |-> v]
NaN == [kind |-> "NaN", v |-> 0]
PosInfinity == [kind |-> "Infinity", v |-> 0]
NegInfinity == [kind |-> "-Infinity", v |-> 0]

\* Math.round((n / d) * scale) / scale for integers n >= 0 and d >= 0, in units
\* of 1/scale: 0/0 is NaN and n/0 is Infinity, which Math.round passes through
RoundedRatio(n, d, scale) ==
  IF d = 0 THEN (IF n = 0 THEN NaN ELSE PosInfinity) ELSE Finite(RoundDiv(n * scale, d))

\* a < k and a > k for a JS number a and a finite k (false when a is NaN)
Less(a, k) == (a.kind = "finite" /\ a.v < k) \/ a.kind = "-Infinity"
Greater(a, k) == (a.kind = "finite" /\ a.v > k) \/ a.kind = "Infinity"

RECURSIVE SqrtSearch(_, _, _)
\* the greatest r in lo..hi with r * r <= x (lo * lo <= x)
SqrtSearch(x, lo, hi) ==
  IF lo >= hi THEN lo
  ELSE LET mid == (lo + hi + 1) \div 2
       IN IF mid * mid <= x THEN SqrtSearch(x, mid, hi) ELSE SqrtSearch(x, lo, mid - 1)

\* 1000 * Math.sqrt(d), to the integer below (to the ten below from d = 2148 on);
\* ISqrt(x) is floor(Math.sqrt(x)), 0 <= x < 2^31
SqrtMilli(d) ==
  LET ISqrt(x) == SqrtSearch(x, 0, 46340)
  IN IF d <= 2147 THEN ISqrt(d * 1000000) ELSE 10 * ISqrt(d * 10000)

(***************************************************************************)
(* BurstinessAnalyzer.ts                                                   *)
(***************************************************************************)
\* BurstinessAnalyzer.extractSentences (and StylometricAnalyzer.extractSentences)
extractSentences(text) ==
  LET pieces == Split(text, SentenceEnd)
  IN NonEmpty([i \in 1..Len(pieces) |-> Trim(pieces[i])])

\* BurstinessAnalyzer.countWords
countWords(str) == Len(NonEmpty(Split(str, WhiteSpace)))

\* the sum of the squares of the members of a sequence
SumSquares(arr) == SumSeq([i \in 1..Len(arr) |-> arr[i] * arr[i]])

\* n^2 times the mean of the squares of arr, the mean not subtracted
ScaledVarianceAboutZero(arr) == Len(arr) * SumSquares(arr)

\* n^2 times the variance of arr: n * sum(x^2) - (sum x)^2
ScaledVariance(arr) == Len(arr) * SumSquares(arr) - SumSeq(arr) * SumSeq(arr)

\* BurstinessAnalyzer.median, doubled
medianTwice(arr) ==
  IF Len(arr) = 0 THEN 0
  ELSE LET n == Len(arr)
           \* sorted[k], k counted from 1: the k-th smallest member
           kth(k) == CHOOSE v \in {arr[i] : i \in 1..n} :
                       /\ Cardinality({i \in 1..n : arr[i] < v}) < k
                       /\ Cardinality({i \in 1..n : arr[i] <= v}) >= k
           mid == n \div 2
       IN IF n % 2 /= 0 THEN 2 * kth(mid + 1) ELSE kth(mid) + kth(mid + 1)

\* BurstinessAnalyzer.mode: the first value, in order of first occurrence,
\* whose frequency is the greatest
mode(arr) ==
  IF Len(arr) = 0 THEN 0
  ELSE LET n == Len(arr)
           freq(v) == Cardinality({i \in 1..n : arr[i] = v})
           first(v) == SetMin({i \in 1..n : arr[i] = v})
       IN CHOOSE v \in {arr[i] : i \in 1..n} :
            \A w \in {arr[i] : i \in 1..n} :
              freq(v) > freq(w) \/ (freq(v) = freq(w) /\ first(v) <= first(w))

\* Math.max(...lengths) and Math.min(...lengths)
MathMax(lengths) ==
  IF Len(lengths) = 0 THEN NegInfinity ELSE Finite(SetMax({lengths[i] : i \in 1..Len(lengths)}))
MathMin(lengths) ==
  IF Len(lengths) = 0 THEN PosInfinity ELSE Finite(SetMin({lengths[i] : i \in 1..Len(lengths)}))

\* BurstinessAnalyzer.createHistogram; with no lengths the loop does not run
createHistogram(lengths) ==
  IF Len(lengths) = 0 THEN [b \in 1..10 |-> 0]
  ELSE LET max == MathMax(lengths).v
           binSize == (max + 9) \div 10
           binIndex(length) == Min(length \div binSize, 9)
       IN [b \in 1..10 |-> Cardinality({i \in 1..Len(lengths) : binIndex(lengths[i]) = b - 1})]

\* BurstinessAnalyzer.analyzeLengthDistribution (quartiles left out)
analyzeLengthDistribution(lengths) ==
  [min |-> MathMin(lengths),
   max |-> MathMax(lengths),
   medianTwice |-> medianTwice(lengths),
   mode |-> mode(lengths),
   histogram |-> createHistogram(lengths)]

\* BurstinessAnalyzer.interpretBurstiness, on index = Math.sqrt(d) / s
\* (s > 0) or index = 0 (s = 0)
interpretBurstiness(d, s) ==
  IF s = 0 \/ 16 * d < s * s
  THEN "Very uniform sentence lengths - highly characteristic of AI-generated text"
  ELSE IF 400 * d < 49 * s * s
  THEN "Low burstiness - likely AI-generated or highly edited text"
  ELSE IF 4 * d < s * s
  THEN "Moderate burstiness - possibly human with some editing"
  ELSE IF 100 * d < 49 * s * s
  THEN "Good burstiness - characteristic of natural human writing"
  ELSE "High burstiness - typical of casual or spontaneous human writing"

\* BurstinessAnalyzer.analyze (paragraphBurstiness left out): with n
\* sentences of lengths summing to s and d = n^2 * variance, the mean is s/n,
\* the standard deviation sqrt(d)/n and the coefficient of variation
\* sqrt(d)/s
BurstinessAnalyze(text) ==
  LET sentences == extractSentences(text)
      sentenceLengths == [i \in 1..Len(sentences) |-> countWords(sentences[i])]
      n == Len(sentenceLengths)
      s == SumSeq(sentenceLengths)
      d == IF n = 0 THEN 0 ELSE ScaledVariance(sentenceLengths)
      cvMilli == IF s > 0 THEN RoundDiv(SqrtMilli(d), s) ELSE 0
  IN [sentenceMeanDeci |-> IF n = 0 THEN 0 ELSE RoundDiv(10 * s, n),
      sentenceStdDevDeci |-> IF n = 0 THEN 0 ELSE RoundDiv(SqrtMilli(d), 100 * n),
      coefficientOfVariation |-> cvMilli,
      burstinessIndex |-> cvMilli,
      lengthDistribution |-> analyzeLengthDistribution(sentenceLengths),
      isLowBurstiness |-> s = 0 \/ 400 * d < 49 * s * s,
      isHumanBurstiness |-> s > 0 /\ 4 * d > s * s,
      interpretation |-> interpretBurstiness(d, s)]

(***************************************************************************)
(* EntropyAnalyzer.ts                                                      *)
(***************************************************************************)

\* EntropyAnalyzer.getFrequencies: the Map from each item to its count
getFrequencies(arr) ==
  [x \in {arr[i] : i \in 1..Len(arr)} |-> Cardinality({i \in 1..Len(arr) : arr[i] = x})]

\* Object.values(map) of a Map: the entries of a Map are not properties of
\* the object, so there is no own enumerable property to list
ObjectValues(map) == << >>

\* the loop `entropy -= p * Math.log2(p)` over the counts `values`, p = freq / total,
\* in 4096ths
EntropyLoop(values, total) ==
  SumSeq([i \in 1..Len(values) |->
            IF values[i] > 0 THEN (values[i] * Log2Ratio(total, values[i])) \div total ELSE 0])

\* EntropyAnalyzer.shannonEntropy, in thousandths; SplitChars is text.split('')
shannonEntropy(text) ==
  LET SplitChars == [i \in 1..Len(text) |-> Ch(text, i)]
  IN RoundDiv(1000 * EntropyLoop(ObjectValues(getFrequencies(SplitChars)), Len(text)), 4096)

\* EntropyAnalyzer.wordEntropy, in thousandths
wordEntropy(text) ==
  LET words == NonEmpty(Split(toLowerCase(text), WhiteSpace))
  IN RoundDiv(1000 * EntropyLoop(ObjectValues(getFrequencies(words)), Len(words)), 4096)

\* EntropyAnalyzer.normalizedEntropy, in thousandths: entropy / Math.log2(Math.min(length, 256));
\* Math.log2(0) is -Infinity and Math.log2(1) is 0
normalizedEntropy(text) ==
  LET entropy == shannonEntropy(text)
  IN IF Len(text) = 0 THEN Finite(0)
     ELSE IF Len(text) = 1 THEN (IF entropy = 0 THEN NaN ELSE PosInfinity)
     ELSE Finite(RoundDiv(entropy * 4096, Log2Ratio(Min(Len(text), 256), 1)))

\* EntropyAnalyzer.getContextProbabilities: the number of times each word
\* follows the context among the tokens, and the number of times the context
\* occurs before the last token; the probability of a word is count / total.
\* context.split(' ').length is the number of words of the context, and 1
\* for the empty context
getContextProbabilities(tokens, context, startIndex) ==
  LET width == Max(1, Len(context))
      occurrences == {i \in 1..(Len(tokens) - 1) : SubSeq(tokens, i, i + Len(context) - 1) = context}
      followers == {i \in occurrences : i + width <= Len(tokens)}
  IN [count |-> [word \in {tokens[i + width] : i \in followers} |->
                   Cardinality({i \in followers : tokens[i + width] = word})],
      total |-> Cardinality(occurrences)]

\* EntropyAnalyzer.conditionalEntropy, in thousandths
conditionalEntropy(text, ngramSize) ==
  LET tokens == NonEmpty(Split(toLowerCase(text), WhiteSpace))
      \* at i (counted from 1) of the loop: contextProbs, and nextWord
      Probs(i) == getContextProbabilities(tokens, SubSeq(tokens, i, i + ngramSize - 2), i)
      nextWord == [i \in 1..(Len(tokens) - ngramSize) |-> tokens[i + ngramSize]]
      \* the i at which contextProbs[nextWord] is a number above 0
      counted == {i \in DOMAIN nextWord : nextWord[i] \in DOMAIN Probs(i).count}
      \* -Math.log2(contextProbs[nextWord]), in 4096ths
      MinusLog(probs, word) == Log2Ratio(probs.total, probs.count[word])
      totalConditionalEntropy == SumOver(counted, [i \in counted |-> MinusLog(Probs(i), nextWord[i])])
      count == Cardinality(counted)
  IN IF Len(tokens) < ngramSize + 1 THEN 0
     ELSE IF count > 0 THEN RoundDiv(1000 * totalConditionalEntropy, 4096 * count)
     ELSE 0

\* EntropyAnalyzer.analyze (byteEntropy left out)
EntropyAnalyze(text) ==
  LET normalized == normalizedEntropy(text)
  IN [shannonEntropy |-> shannonEntropy(text),
      wordEntropy |-> wordEntropy(text),
      conditionalEntropy |-> conditionalEntropy(text, 2),
      normalizedShannon |-> normalized,
      interpretation |-> IF Less(normalized, 850) THEN "low-entropy"
                         ELSE IF Less(normalized, 950) THEN "moderate-entropy"
                         ELSE "high-entropy"]

(***************************************************************************)
(* StylometricAnalyzer.ts                                                  *)
(***************************************************************************)
FUNCTION_WORDS == {
  "the", "a", "an", "and", "or", "but", "if", "then",
  "else", "when", "while", "of", "at", "by", "for", "with",
  "about", "against", "between", "into", "through", "during", "before", "after",
  "above", "below", "to", "from", "up", "down", "in", "out",
  "on", "off", "over", "under", "again", "further", "once", "i",
  "you", "he", "she", "it", "we", "they", "me", "him",
  "her", "us", "them", "my", "your", "his", "its", "our",
  "their", "mine", "yours", "hers", "ours", "theirs", "this", "that",
  "these", "those", "is", "are", "was", "were", "be", "been",
  "being", "have", "has", "had", "do", "does", "did", "will",
  "would", "shall", "should", "can", "could", "may", "might", "must",
  "ought", "need", "dare", "let", "please"
}

\* StylometricAnalyzer.tokenize
StyleTokenize(text) ==
  NonEmpty(Split(ReplaceOutside(toLowerCase(text), WordChars \cup WhiteSpace), WhiteSpace))

\* StylometricAnalyzer.extractSentences
StyleExtractSentences(text) ==
  LET pieces == Split(text, SentenceEnd)
  IN NonEmpty([i \in 1..Len(pieces) |-> Trim(pieces[i])])

\* StylometricAnalyzer.calculateTTR, in thousandths
calculateTTR(words) ==
  RoundedRatio(Cardinality({words[i] : i \in 1..Len(words)}), Len(words), 1000)

\* StylometricAnalyzer.calculateHapaxLegemna, in thousandths
calculateHapaxLegemna(words) ==
  RoundedRatio(Cardinality({w \in {words[i] : i \in 1..Len(words)} :
                              Cardinality({i \in 1..Len(words) : words[i] = w}) = 1}),
               Len(words), 1000)

\* StylometricAnalyzer.averageSentenceLength, in tenths
averageSentenceLength(text, sentences) ==
  RoundedRatio(Len(NonEmpty(Split(text, WhiteSpace))), Len(sentences), 10)

\* StylometricAnalyzer.averageWordLength, in hundredths
averageWordLength(words) ==
  RoundedRatio(SumSeq([i \in 1..Len(words) |-> Len(words[i])]), Len(words), 100)

Vowels == {"a", "e", "i", "o", "u", "y"}

\* word.replace(/(?:[^laeiouy]es|ed|[^laeiouy]e)$/, ''): the leftmost match
\* that ends the word
StripSuffix(word) ==
  LET n == Len(word)
      soft == Vowels \cup {"l"}
  IN IF n >= 3 /\ Ch(word, n - 2) \notin soft /\ SubSeq(word, n - 1, n) = "es"
     THEN SubSeq(word, 1, n - 3)
     ELSE IF n >= 2 /\ SubSeq(word, n - 1, n) = "ed" THEN SubSeq(word, 1, n - 2)
     ELSE IF n >= 2 /\ Ch(word, n - 1) \notin soft /\ Ch(word, n) = "e" THEN SubSeq(word, 1, n - 2)
     ELSE word

\* StylometricAnalyzer.countSyllables: /[aeiouy]{1,2}/g matches a run of k
\* vowels ceil(k / 2) times
countSyllables(w) ==
  LET letters == ConcatRange([i \in 1..Len(w) |->
                                IF Ch(w, i) \in CharsOf(LowerLetters) THEN Ch(w, i) ELSE ""],
                             1, Len(w))
  IN IF Len(letters) <= 3 THEN 1
     ELSE LET stripped == StripSuffix(letters)
              word == IF Len(stripped) > 0 /\ Ch(stripped, 1) = "y"
                      THEN SubSeq(stripped, 2, Len(stripped)) ELSE stripped
              others == CharsOf(word) \ Vowels
              runs == PieceStarts(word, others)
              matches == SumOver(runs, [i \in runs |-> (PieceEnd(word, others, i) - i + 2) \div 2])
          IN IF matches > 0 THEN matches ELSE 1

\* StylometricAnalyzer.polysyllableRatio, in thousandths
polysyllableRatio(words) ==
  RoundedRatio(Cardinality({i \in 1..Len(words) : countSyllables(words[i]) >= 3}), Len(words), 1000)

\* StylometricAnalyzer.functionWordRatio, in thousandths
functionWordRatio(words) ==
  RoundedRatio(Cardinality({i \in 1..Len(words) : words[i] \in FUNCTION_WORDS}), Len(words), 1000)

\* StylometricAnalyzer.extractFeatures: the vocabulary, sentence and word
\* features (the features that are not read by the scoring engine are left out)
extractFeatures(text) ==
  LET words == StyleTokenize(text)
      sentences == StyleExtractSentences(text)
  IN [typeTokenRatio |-> calculateTTR(words),
      hapaxLegemnaRatio |-> calculateHapaxLegemna(words),
      averageSentenceLength |-> averageSentenceLength(text, sentences),
      averageWordLength |-> averageWordLength(words),
      polysyllableRatio |-> polysyllableRatio(words),
      functionWordRatio |-> functionWordRatio(words)]

(***************************************************************************)
(* AIFingerprintDetector.ts                                                *)
(***************************************************************************)
\* the array literal handed to `new Set` for AI_MARKER_WORDS
AI_MARKER_WORD_LIST == <<
  "delve", "tapestry", "landscape", "underscore", "paramount",
  "nuanced", "multifaceted", "testament", "realm", "poised",
  "unwavering", "meticulous", "harnessing", "leveraging", "game-changer",
  "paradigm", "stark", "crucial role", "arguably", "notably",
  "subsequently", "foster", "cultivate", "myriad", "intersection",
  "dichotomy", "juxtapose", "elucidate", "disseminate", "ameliorate",
  "exacerbate", "proliferation", "comprehensively", "meticulously", "meticulous",
  "meticulously", "seamlessly", "effortlessly", "intriguingly", "fascinatingly",
  "noteworthily", "significantly", "substantially", "considerably", "paradigmatic",
  "epitomize", "exemplify", "characterize", "reverberate", "transcend",
  "transcending", "transcended", "democratize", "revolutionize", "pioneer",
  "groundbreaking"
>>

\* the array itself, an element listed twice kept twice
KeepListed(arr) == arr

\* new Set(array): the distinct elements in the order of their first insertion
NewSet(arr) ==
  LET first == {i \in 1..Len(arr) : \A j \in 1..(i - 1) : arr[j] /= arr[i]}
      order == SortedSeq(first)
  IN [k \in 1..Len(order) |-> arr[order[k]]]

AI_MARKER_WORDS == NewSet(AI_MARKER_WORD_LIST)

AI_MARKER_PHRASES == <<
  "it is important to note", "in conclusion", "it is worth noting",
  "on the other hand", "at the end of the day", "all things considered",
  "needless to say", "last but not least", "first and foremost",
  "in a nutshell", "plays a crucial role", "it can be argued",
  "from a theoretical perspective", "it is evident that", "research has shown",
  "studies have demonstrated", "it is clear that", "this suggests that",
  "it is worth mentioning", "it should be noted", "with this in mind",
  "taking this into account", "in light of this", "given these considerations",
  "for the purposes of", "in the realm of", "at its core",
  "in essence", "to sum up", "in summary",
  "moving forward", "going forward", "it is essential to",
  "it is imperative that", "it is crucial that", "there are several factors",
  "a multitude of", "a plethora of", "a wide range of",
  "time and time again", "over the course of", "in the face of",
  "with regard to", "pertaining to", "in terms of",
  "by and large", "to a large extent", "in a significant way",
  "in meaningful ways", "in profound ways", "in tangible ways"
>>

\* Offsets are those of JavaScript: offset p lies between the characters
\* text[p - 1] and text[p]; the character text[p] is Ch(text, p + 1).

\* \b at offset p
WordBoundary(text, p) ==
  LET before == p >= 1 /\ Ch(text, p) \in WordChars
      after == p < Len(text) /\ Ch(text, p + 1) \in WordChars
  IN before /= after

\* the literal `lit` (lower case) matches at offset p, ignoring case
LiteralAt(lower, lit, p) ==
  p + Len(lit) <= Len(lower) /\ SubSeq(lower, p + 1, p + Len(lit)) = lit

RECURSIVE Exhaust(_, _, _)
\* the `while ((match = regex.exec(text)) !== null)` loop of a global regex
\* that matches a literal: the offsets of the matches found from lastIndex
\* on, each search resuming where the previous match ended
Exhaust(starts, length, from) ==
  LET ahead == {p \in starts : p >= from}
  IN IF ahead = {} THEN << >>
     ELSE << SetMin(ahead) >> \o Exhaust(starts, length, SetMin(ahead) + length)

\* the markers pushed for the matches of one literal at the offsets `at`
Markers(text, at, length) ==
  [k \in 1..Len(at) |-> [value |-> SubSeq(text, at[k] + 1, at[k] + length), position |-> at[k]]]

\* the concatenation lists[1] \o ... \o lists[Len(lists)]: its i-th member
\* lies in the list before which fewer than i members come and with which
\* at least i
Flatten(lists) ==
  LET lengths == [j \in 1..Len(lists) |-> Len(lists[j])]
      before == [j \in 1..Len(lists) |-> SumSeq(SubSeq(lengths, 1, j - 1))]
      owner == [i \in 1..SumSeq(lengths) |->
                  CHOOSE j \in 1..Len(lists) : before[j] < i /\ i <= before[j] + lengths[j]]
  IN [i \in 1..SumSeq(lengths) |-> lists[owner[i]][i - before[owner[i]]]]

\* AIFingerprintDetector.detectMarkerWords: new RegExp(`\\b${word}\\b`, 'gi')
\* for each word of the set, run to exhaustion from lastIndex 0
detectMarkerWords(text) ==
  LET lower == toLowerCase(text)
      found(word) ==
        Exhaust({p \in 0..Len(text) : /\ LiteralAt(lower, word, p)
                                      /\ WordBoundary(text, p)
                                      /\ WordBoundary(text, p + Len(word))},
                Len(word), 0)
  IN Flatten([k \in 1..Len(AI_MARKER_WORDS) |->
                Markers(text, found(AI_MARKER_WORDS[k]), Len(AI_MARKER_WORDS[k]))])

\* AIFingerprintDetector.detectMarkerPhrases: new RegExp(escapeRegex(phrase), 'gi')
\* (no phrase of the list holds a character that escapeRegex changes)
detectMarkerPhrases(text) ==
  LET lower == toLowerCase(text)
      found(phrase) ==
        Exhaust({p \in 0..Len(text) : LiteralAt(lower, phrase, p)}, Len(phrase), 0)
  IN Flatten([k \in 1..Len(AI_MARKER_PHRASES) |->
                Markers(text, found(AI_MARKER_PHRASES[k]), Len(AI_MARKER_PHRASES[k]))])

\* The elements of the regular expressions of AI_PATTERNS:
\*   "b" is \b, "alt" an alternation of literals (a|b|c), "s" greedy
\*   whitespace \s* (lo = 0) or \s+ (lo = 1), "w" the greedy \w+, and "group"
\*   the greedy repetition (\w+\s+){lo,hi}
\* the structural patterns, each a global, case-insensitive regular expression
AI_PATTERNS ==
  LET B == [t |-> "b", alts |-> << >>, lo |-> 0, hi |-> 0]
      Alt(alts) == [t |-> "alt", alts |-> alts, lo |-> 0, hi |-> 0]
      S(lo) == [t |-> "s", alts |-> << >>, lo |-> lo, hi |-> 0]
      W == [t |-> "w", alts |-> << >>, lo |-> 1, hi |-> 0]
      Group(lo, hi) == [t |-> "group", alts |-> << >>, lo |-> lo, hi |-> hi]
  IN <<
  << B, Alt(<< "the", "a" >>), S(1), W, S(1), Alt(<< "is", "are" >>), S(1),
     Alt(<< "characterized by", "defined as" >>) >>,
  << B, Alt(<< "therefore", "thus", "hence" >>), S(0), Alt(<< "," >>), S(1) >>,
  << B, Alt(<< "moreover", "furthermore", "additionally" >>), S(0), Alt(<< "," >>), S(1) >>,
  << B, Alt(<< "first", "second", "third", "finally" >>), S(0), Alt(<< "," >>), S(1) >>,
  << B, Alt(<< "in" >>), S(1), W, S(1), Alt(<< "way", "manner", "fashion" >>), B >>,
  << B, Alt(<< "it" >>), S(1), Alt(<< "is", "has", "was" >>), S(1), W, S(1),
     Alt(<< "that", "which", "who" >>), B >>,
  << B, Alt(<< "this" >>), S(1), W, S(1),
     Alt(<< "suggests", "demonstrates", "indicates", "reveals" >>), B >>,
  << B, Alt(<< "to" >>), S(1), Alt(<< "conclude" >>), B >>,
  << B, Alt(<< "in" >>), S(1), Alt(<< "closing" >>), B >>,
  << B, Alt(<< "to", "a" >>), S(1), Group(1, 2), Alt(<< "degree", "extent" >>), B >>
  >>

\* a greedy run of at least lo characters of `class` from offset p: the
\* offsets at which it may end, the longest first
GreedyRun(text, class, lo, p) ==
  LET stops == {q \in p..Len(text) : q = Len(text) \/ Ch(text, q + 1) \notin class}
      RunLength == SetMin(stops) - p
      r == RunLength
  IN [k \in 1..(r - lo + 1) |-> p + r - k + 1]

\* one iteration \w+\s+ of the group from offset p: its ends in the order in
\* which backtracking tries them
GroupIteration(text, p) ==
  LET words == GreedyRun(text, WordChars, 1, p)
  IN Flatten([k \in 1..Len(words) |-> GreedyRun(text, WhiteSpace, 1, words[k])])

\* (\w+\s+){1,2}: a second iteration is tried before the match goes on after
\* the first
GroupEnds(text, e, p) ==
  LET once == GroupIteration(text, p)
  IN Flatten([k \in 1..Len(once) |->
                (IF e.hi >= 2 THEN GroupIteration(text, once[k]) ELSE << >>) \o << once[k] >>])

\* the offsets at which element e, starting at offset p, may end, in the
\* order in which backtracking tries them
ElementEnds(text, lower, e, p) ==
  IF e.t = "b" THEN (IF WordBoundary(text, p) THEN << p >> ELSE << >>)
  ELSE IF e.t = "alt"
  THEN Flatten([k \in 1..Len(e.alts) |->
                  IF LiteralAt(lower, e.alts[k], p) THEN << p + Len(e.alts[k]) >> ELSE << >>])
  ELSE IF e.t = "s" THEN GreedyRun(text, WhiteSpace, e.lo, p)
  ELSE IF e.t = "w" THEN GreedyRun(text, WordChars, e.lo, p)
  ELSE GroupEnds(text, e, p)

RECURSIVE MatchFrom(_, _, _, _, _)
\* the ends of the matches of the elements k.. of `pattern` that start at
\* offset p, the one the engine reports first
MatchFrom(text, lower, pattern, k, p) ==
  IF k > Len(pattern) THEN << p >>
  ELSE LET ends == ElementEnds(text, lower, pattern[k], p)
       IN Flatten([j \in 1..Len(ends) |-> MatchFrom(text, lower, pattern, k + 1, ends[j])])

\* MatchEnd, the end of the match of `pattern` that starts at offset `from`
\* or -1, for each text of Texts, each pattern and each offset, computed once
MatchEnds ==
  LET MatchEnd(pattern, text, from) ==
        LET ends == MatchFrom(text, toLowerCase(text), pattern, 1, from)
        IN IF ends = << >> THEN 0 - 1 ELSE ends[1]
  IN
  Table([t \in Texts |->
           Table([k \in 1..Len(AI_PATTERNS) |->
                    Table([p \in 0..Len(t) |-> MatchEnd(AI_PATTERNS[k], t, p)])])])

\* exec that leaves lastIndex where it is when the search fails
execKeepingLastIndex(k, text, from) ==
  LET Search(ends) ==
        LET starts == {p \in from..Len(text) : ends[p] >= 0}
            Match(index) ==
              [found |-> TRUE, index |-> index, end |-> ends[index], lastIndex |-> ends[index]]
        IN IF starts = {}
           THEN [found |-> FALSE, index |-> 0, end |-> 0, lastIndex |-> from]
           ELSE Match(SetMin(starts))
  IN Search(MatchEnds[text][Min(k, Len(AI_PATTERNS))])

\* AI_PATTERNS[k].pattern.exec(text), a global regex: the search starts at
\* lastIndex; a match moves lastIndex to its end, a failure resets lastIndex
\* to 0
exec(k, text, from) ==
  LET Search(ends) ==
        LET starts == {p \in from..Len(text) : ends[p] >= 0}
            Match(index) ==
              [found |-> TRUE, index |-> index, end |-> ends[index], lastIndex |-> ends[index]]
        IN IF starts = {}
           THEN [found |-> FALSE, index |-> 0, end |-> 0, lastIndex |-> 0]
           ELSE Match(SetMin(starts))
  IN Search(MatchEnds[text][k])

\* `if ((match = pattern.exec(text)) !== null)` for the `while`: one call of exec
ExecsOnce(k, text, from) == << exec(k, text, from) >>

RECURSIVE Execs(_, _, _)
\* the calls of exec that `while ((match = pattern.exec(text)) !== null)`
\* makes for the pattern AI_PATTERNS[k], entered with its lastIndex at
\* `from`: each call resumes at the lastIndex the call before has set, and
\* the call that fails ends the loop
Execs(k, text, from) ==
  LET While(match) ==
        << match >> \o (IF match.found THEN Execs(k, text, match.lastIndex) ELSE << >>)
  IN While(exec(k, text, from))

\* the loop of detectPatterns for the pattern AI_PATTERNS[k]: the matches
\* pushed, the lastIndex the regex is left with, and the values the calls of
\* exec have assigned to its lastIndex, in order
PatternLoop(k, text, from) ==
  LET Pushed(matched) ==
        [i \in 1..Len(matched) |->
           [value |-> SubSeq(text, matched[i].index + 1, matched[i].end),
            position |-> matched[i].index]]
      Loop(execs) ==
        [matches |-> Pushed(SelectSeq(execs, LAMBDA match : match.found)),
         lastIndex |-> execs[Len(execs)].lastIndex,
         written |-> [i \in 1..Len(execs) |-> execs[i].lastIndex]]
  IN Loop(Execs(k, text, from))

\* PatternLoop for each text of Texts, each pattern and each lastIndex a
\* regex can be left with, computed once
PatternLoops ==
  Table([t \in Texts |->
           Table([k \in 1..Len(AI_PATTERNS) |->
                    Table([p \in 0..SetMax({Len(u) : u \in Texts}) |-> PatternLoop(k, t, p)])])])

\* AIFingerprintDetector.detectPatterns: the matches, the lastIndex each
\* regex of AI_PATTERNS is left with, and the values assigned to each
\* regex's lastIndex on the way
detectPatterns(text, from) ==
  LET ForEach(loops) ==
        [matches |-> Flatten([k \in 1..Len(loops) |-> loops[k].matches]),
         lastIndex |-> [k \in 1..Len(loops) |-> loops[k].lastIndex],
         written |-> [k \in 1..Len(loops) |-> loops[k].written]]
  IN ForEach([k \in 1..Len(AI_PATTERNS) |-> PatternLoops[text][k][from[k]]])

\* detectMarkerWords and detectMarkerPhrases for each text of Texts, computed once
MarkerWords == Table([t \in Texts |-> detectMarkerWords(t)])
MarkerPhrases == Table([t \in Texts |-> detectMarkerPhrases(t)])

\* AIFingerprintDetector.interpretDensity (density = 100 * totalMarkers / wordCount)
interpretDensity(totalMarkers, wordCount) ==
  IF 200 * totalMarkers < wordCount THEN "Very few AI markers - likely human-written"
  ELSE IF 200 * totalMarkers < 3 * wordCount
  THEN "Few AI markers detected - possibly edited by human"
  ELSE IF 100 * totalMarkers < 3 * wordCount
  THEN "Moderate AI markers - likely AI-assisted or lightly edited"
  ELSE IF 100 * totalMarkers < 5 * wordCount
  THEN "Many AI markers - likely AI-generated with minimal editing"
  ELSE "Very high AI marker density - strongly characteristic of AI-generated text"

\* Math.round(density * 25) without the cap Math.min(100, ...)
normalizedScoreUncapped(totalMarkers, wordCount) ==
  RoundDiv(2500 * totalMarkers, wordCount)

\* Math.min(100, Math.round(density * 25)), density = (totalMarkers / wordCount) * 100
normalizedScore(totalMarkers, wordCount) ==
  Min(100, RoundDiv(2500 * totalMarkers, wordCount))

\* markers.map(m => ({ type, ...m }))
Typed(type, markers) ==
  [k \in 1..Len(markers) |->
     [type |-> type, value |-> markers[k].value, position |-> markers[k].position]]

\* AIFingerprintDetector.detect after the three detections: the result, the
\* lastIndex of each regex of AI_PATTERNS after the call and the values
\* assigned to it during the call; density in hundredths
Detected(wordMatches, phraseMatches, patterns, wordCount) ==
  LET detectedMarkers == Typed("word", wordMatches) \o Typed("phrase", phraseMatches)
                           \o Typed("pattern", patterns.matches)
      totalMarkers == Len(detectedMarkers)
  IN [result |-> [markerWordCount |-> Len(wordMatches),
                  markerPhraseCount |-> Len(phraseMatches),
                  patternMatchCount |-> Len(patterns.matches),
                  totalMarkers |-> totalMarkers,
                  normalizedScore |-> normalizedScore(totalMarkers, wordCount),
                  density |-> RoundDiv(10000 * totalMarkers, wordCount),
                  detectedMarkers |-> detectedMarkers,
                  isHighDensity |-> 100 * totalMarkers > 2 * wordCount,
                  interpretation |-> interpretDensity(totalMarkers, wordCount)],
      lastIndex |-> patterns.lastIndex,
      written |-> patterns.written]

\* AIFingerprintDetector.detect
detect(text, from) ==
  Detected(MarkerWords[text], MarkerPhrases[text], detectPatterns(text, from),
           Len(Split(text, WhiteSpace)))

(***************************************************************************)
(* ScoringEngine.ts.  Weights are in hundredths, so the weighted sum of    *)
(* the scores is the aggregate probability in hundredths of a point.       *)
(***************************************************************************)
\* the model after NGramModel.train has run once over the built-in corpus
TrainedModel == train(EmptyModel, TRAINING_CORPUS)

\* a PerplexityCalculator whose model is trained a second time
PerplexityCalculatorRetrained ==
  [ngramModel |-> train(train(EmptyModel, TRAINING_CORPUS), TRAINING_CORPUS)]

\* new PerplexityCalculator(): this.ngramModel = new NGramModel(3);
\* this.ngramModel.train(TRAINING_CORPUS)
PerplexityCalculator == [ngramModel |-> train(EmptyModel, TRAINING_CORPUS)]

DEFAULT_WEIGHTS ==
  [perplexity |-> 30, burstiness |-> 25, entropy |-> 15, stylometry |-> 15, fingerprint |-> 15]

\* { ...b, ...a } for { ...a, ...b }
SpreadReversed(a, b) == [k \in DOMAIN a \cup DOMAIN b |-> IF k \in DOMAIN a THEN a[k] ELSE b[k]]

\* { ...a, ...b }: the properties of b, and those of a that b does not have
Spread(a, b) == [k \in DOMAIN a \cup DOMAIN b |-> IF k \in DOMAIN b THEN b[k] ELSE a[k]]

\* new ScoringEngine(weights)
ScoringEngine(weights) ==
  [perplexity |-> PerplexityCalculator, weights |-> Spread(DEFAULT_WEIGHTS, weights)]

\* scorePerplexity without `if (metrics.perplexity === 0) return 50`
scorePerplexityOfTable(metrics) ==
  IF metrics.perplexity < 1000 THEN 95
  ELSE IF metrics.perplexity < 2000 THEN 85
  ELSE IF metrics.perplexity < 3000 THEN 70
  ELSE IF metrics.perplexity < 4500 THEN 55
  ELSE IF metrics.perplexity < 6000 THEN 40
  ELSE IF metrics.perplexity < 8000 THEN 25
  ELSE 10

\* ScoringEngine.scorePerplexity
scorePerplexity(metrics) ==
  IF metrics.perplexity = 0 THEN 50
  ELSE IF metrics.perplexity < 1000 THEN 95
  ELSE IF metrics.perplexity < 2000 THEN 85
  ELSE IF metrics.perplexity < 3000 THEN 70
  ELSE IF metrics.perplexity < 4500 THEN 55
  ELSE IF metrics.perplexity < 6000 THEN 40
  ELSE IF metrics.perplexity < 8000 THEN 25
  ELSE 10

\* scoreBurstiness with the scores of the rows `cv < 0.3` and `cv < 0.4` exchanged
scoreBurstinessSwapped(metrics) ==
  LET cv == metrics.coefficientOfVariation
  IN IF cv < 200 THEN 90
     ELSE IF cv < 300 THEN 60
     ELSE IF cv < 400 THEN 75
     ELSE IF cv < 500 THEN 45
     ELSE IF cv < 600 THEN 30
     ELSE IF cv < 750 THEN 20
     ELSE 10

\* ScoringEngine.scoreBurstiness
scoreBurstiness(metrics) ==
  LET cv == metrics.coefficientOfVariation
  IN IF cv < 200 THEN 90
     ELSE IF cv < 300 THEN 75
     ELSE IF cv < 400 THEN 60
     ELSE IF cv < 500 THEN 45
     ELSE IF cv < 600 THEN 30
     ELSE IF cv < 750 THEN 20
     ELSE 10

\* ScoringEngine.scoreEntropy
scoreEntropy(metrics) ==
  LET norm == metrics.normalizedShannon
  IN IF Less(norm, 800) THEN 85
     ELSE IF Less(norm, 850) THEN 70
     ELSE IF Less(norm, 900) THEN 55
     ELSE IF Less(norm, 950) THEN 40
     ELSE 25

\* scoreStylometry without Math.min(100, Math.max(0, score))
scoreStylometryUnclamped(metrics) ==
  LET score == 50
        + (IF Less(metrics.typeTokenRatio, 300) THEN 20
           ELSE IF Less(metrics.typeTokenRatio, 500) THEN 10
           ELSE IF Greater(metrics.typeTokenRatio, 700) THEN 0 - 15
           ELSE 0)
        + (IF Greater(metrics.functionWordRatio, 500) THEN 15 ELSE 0)
        + (IF Greater(metrics.functionWordRatio, 600) THEN 10 ELSE 0)
        + (IF Less(metrics.polysyllableRatio, 100) THEN 15 ELSE 0)
        + (IF Less(metrics.polysyllableRatio, 150) THEN 10 ELSE 0)
        + (IF Greater(metrics.averageSentenceLength, 150) /\ Less(metrics.averageSentenceLength, 250)
           THEN 10 ELSE 0)
  IN score

\* ScoringEngine.scoreStylometry
scoreStylometry(metrics) ==
  LET score == 50
        + (IF Less(metrics.typeTokenRatio, 300) THEN 20
           ELSE IF Less(metrics.typeTokenRatio, 500) THEN 10
           ELSE IF Greater(metrics.typeTokenRatio, 700) THEN 0 - 15
           ELSE 0)
        + (IF Greater(metrics.functionWordRatio, 500) THEN 15 ELSE 0)
        + (IF Greater(metrics.functionWordRatio, 600) THEN 10 ELSE 0)
        + (IF Less(metrics.polysyllableRatio, 100) THEN 15 ELSE 0)
        + (IF Less(metrics.polysyllableRatio, 150) THEN 10 ELSE 0)
        + (IF Greater(metrics.averageSentenceLength, 150) /\ Less(metrics.averageSentenceLength, 250)
           THEN 10 ELSE 0)
  IN Min(100, Max(0, score))

\* ScoringEngine.scoreFingerprint
scoreFingerprint(metrics) == metrics.normalizedScore

\* ScoringEngine.combineScores, in hundredths of a point
combineScores(weights, scores) ==
  scores.perplexity * weights.perplexity
    + scores.burstiness * weights.burstiness
    + scores.entropy * weights.entropy
    + scores.stylometry * weights.stylometry
    + scores.fingerprint * weights.fingerprint

\* calculateConfidence with the sum of the two signals for their mean
calculateConfidenceOfSum(perplexity, burstiness, entropy) ==
  LET signal == Abs(perplexity.perplexity - 5000) + 10 * Abs(burstiness.burstinessIndex - 500)
  IN IF signal > 2500 THEN "high"
     ELSE IF signal > 1250 THEN "medium"
     ELSE "low"

\* ScoringEngine.calculateConfidence: avgSignal is
\* (|perplexity - 50| / 50 + |burstinessIndex - 0.5| / 0.5) / 2
calculateConfidence(perplexity, burstiness, entropy) ==
  LET signal == Abs(perplexity.perplexity - 5000) + 10 * Abs(burstiness.burstinessIndex - 500)
  IN IF signal > 5000 THEN "high"
     ELSE IF signal > 2500 THEN "medium"
     ELSE "low"

\* determineVerdict with `aiProbability > 55` for `aiProbability >= 55`
determineVerdictExclusive(aiProbability, confidence) ==
  IF aiProbability >= 8500 THEN "Definitely AI"
  ELSE IF aiProbability >= 7000 THEN "Likely AI"
  ELSE IF aiProbability > 5500 THEN "Possibly AI"
  ELSE IF aiProbability >= 4500 THEN "Uncertain"
  ELSE IF aiProbability >= 3000 THEN "Possibly Human"
  ELSE IF aiProbability >= 1500 THEN "Likely Human"
  ELSE "Definitely Human"

\* ScoringEngine.determineVerdict; aiProbability in hundredths of a point
determineVerdict(aiProbability, confidence) ==
  IF aiProbability >= 8500 THEN "Definitely AI"
  ELSE IF aiProbability >= 7000 THEN "Likely AI"
  ELSE IF aiProbability >= 5500 THEN "Possibly AI"
  ELSE IF aiProbability >= 4500 THEN "Uncertain"
  ELSE IF aiProbability >= 3000 THEN "Possibly Human"
  ELSE IF aiProbability >= 1500 THEN "Likely Human"
  ELSE "Definitely Human"

\* a message, with the number a template literal puts into it (0 when the
\* message has none)
Message(text, value) == [text |-> text, value |-> value]

When(condition, message) == IF condition THEN << message >> ELSE << >>

\* generateRecommendations with `scores.fingerprint > 50` for `scores.fingerprint > 40`
generateRecommendationsAbove50(scores, metrics) ==
  LET recommendations ==
        When(scores.perplexity > 60,
             Message("Text shows highly predictable patterns - consider varying sentence structures", 0))
        \o When(scores.burstiness > 60,
                Message("Sentence lengths are very uniform - introduce more variation", 0))
        \o When(scores.fingerprint > 50,
                Message("Detected ${markerWordCount} AI-specific words - replace with more natural alternatives",
                        metrics.fingerprint.markerWordCount))
        \o When(scores.stylometry > 60,
                Message("Writing shows AI-typical patterns - add more personal voice and variation", 0))
        \o When(scores.entropy < 30,
                Message("Text entropy is low - introduce more vocabulary diversity", 0))
  IN IF Len(recommendations) = 0
     THEN << Message("Text shows natural human writing patterns", 0) >>
     ELSE recommendations

\* ScoringEngine.generateRecommendations
generateRecommendations(scores, metrics) ==
  LET recommendations ==
        When(scores.perplexity > 60,
             Message("Text shows highly predictable patterns - consider varying sentence structures", 0))
        \o When(scores.burstiness > 60,
                Message("Sentence lengths are very uniform - introduce more variation", 0))
        \o When(scores.fingerprint > 40,
                Message("Detected ${markerWordCount} AI-specific words - replace with more natural alternatives",
                        metrics.fingerprint.markerWordCount))
        \o When(scores.stylometry > 60,
                Message("Writing shows AI-typical patterns - add more personal voice and variation", 0))
        \o When(scores.entropy < 30,
                Message("Text entropy is low - introduce more vocabulary diversity", 0))
  IN IF Len(recommendations) = 0
     THEN << Message("Text shows natural human writing patterns", 0) >>
     ELSE recommendations

\* buildDetails with `scores.perplexity > scores.burstiness` for
\* `scores.perplexity >= scores.burstiness`
buildDetailsStrict(scores, metrics) ==
  [reason |->
     IF scores.perplexity > scores.burstiness /\ scores.perplexity >= scores.fingerprint
     THEN "Primary indicator is text predictability (perplexity analysis)"
     ELSE IF scores.burstiness >= scores.perplexity /\ scores.burstiness >= scores.fingerprint
     THEN "Primary indicator is uniform sentence structure (burstiness analysis)"
     ELSE "Primary indicator is AI-specific linguistic markers (fingerprint analysis)",
   keyIndicators |->
     When(scores.perplexity > 70,
          Message("Very predictable text (perplexity: ${perplexity})", metrics.perplexity.perplexity))
     \o When(scores.burstiness > 70,
             Message("Extremely uniform sentence lengths (CV: ${coefficientOfVariation})",
                     metrics.burstiness.coefficientOfVariation))
     \o When(scores.fingerprint > 50,
             Message("Contains ${totalMarkers} AI-specific markers", metrics.fingerprint.totalMarkers)),
   warnings |->
     When(Less(metrics.stylometry.typeTokenRatio, 400),
          Message("Low vocabulary diversity detected", 0))
     \o When(metrics.fingerprint.isHighDensity,
             Message("High density of AI-typical phrases and patterns", 0))]

\* ScoringEngine.buildDetails
buildDetails(scores, metrics) ==
  [reason |->
     IF scores.perplexity >= scores.burstiness /\ scores.perplexity >= scores.fingerprint
     THEN "Primary indicator is text predictability (perplexity analysis)"
     ELSE IF scores.burstiness >= scores.perplexity /\ scores.burstiness >= scores.fingerprint
     THEN "Primary indicator is uniform sentence structure (burstiness analysis)"
     ELSE "Primary indicator is AI-specific linguistic markers (fingerprint analysis)",
   keyIndicators |->
     When(scores.perplexity > 70,
          Message("Very predictable text (perplexity: ${perplexity})", metrics.perplexity.perplexity))
     \o When(scores.burstiness > 70,
             Message("Extremely uniform sentence lengths (CV: ${coefficientOfVariation})",
                     metrics.burstiness.coefficientOfVariation))
     \o When(scores.fingerprint > 50,
             Message("Contains ${totalMarkers} AI-specific markers", metrics.fingerprint.totalMarkers)),
   warnings |->
     When(Less(metrics.stylometry.typeTokenRatio, 400),
          Message("Low vocabulary diversity detected", 0))
     \o When(metrics.fingerprint.isHighDensity,
             Message("High density of AI-typical phrases and patterns", 0))]

\* the metrics of ScoringEngine.shortTextResult (the fields that the
\* extractors of this module compute)
shortTextMetrics ==
     [perplexity |-> [perplexity |-> 0, tokenCount |-> 0, interpretation |-> "natural"],
      burstiness |->
        [sentenceMeanDeci |-> 0,
         sentenceStdDevDeci |-> 0,
         coefficientOfVariation |-> 0,
         burstinessIndex |-> 0,
         lengthDistribution |-> [min |-> Finite(0), max |-> Finite(0), medianTwice |-> 0,
                                 mode |-> 0, histogram |-> << >>],
         isLowBurstiness |-> FALSE,
         isHumanBurstiness |-> FALSE,
         interpretation |-> "Text too short for reliable analysis"],
      entropy |-> [shannonEntropy |-> 0, wordEntropy |-> 0, conditionalEntropy |-> 0,
                   normalizedShannon |-> Finite(0),
                   interpretation |-> "moderate-entropy"],
      stylometry |-> [typeTokenRatio |-> Finite(0), hapaxLegemnaRatio |-> Finite(0),
                      averageSentenceLength |-> Finite(0), averageWordLength |-> Finite(0),
                      polysyllableRatio |-> Finite(0), functionWordRatio |-> Finite(0)],
      fingerprint |-> [markerWordCount |-> 0, markerPhraseCount |-> 0, patternMatchCount |-> 0,
                       totalMarkers |-> 0, normalizedScore |-> 0, density |-> 0,
                       detectedMarkers |-> << >>, isHighDensity |-> FALSE,
                       interpretation |-> "Text too short for reliable analysis"]]

\* shortTextResult with the text taken for human: 0 and 100 for 50 and 50
shortTextResultHuman ==
  [aiProbability |-> 0,
   humanProbability |-> 100,
   scores |-> [perplexity |-> 50, burstiness |-> 50, entropy |-> 50, stylometry |-> 50,
               fingerprint |-> 50],
   metrics |-> shortTextMetrics,
   confidence |-> "low",
   verdict |-> "Uncertain",
   recommendations |-> << Message("Text is too short for reliable AI detection", 0) >>,
   details |-> [reason |-> "Insufficient text length for analysis",
                keyIndicators |-> << >>,
                warnings |-> << Message("Analysis may be unreliable for texts under 10 words", 0) >>]]

\* ScoringEngine.shortTextResult
shortTextResult ==
  [aiProbability |-> 50,
   humanProbability |-> 50,
   scores |-> [perplexity |-> 50, burstiness |-> 50, entropy |-> 50, stylometry |-> 50,
               fingerprint |-> 50],
   metrics |-> shortTextMetrics,
   confidence |-> "low",
   verdict |-> "Uncertain",
   recommendations |-> << Message("Text is too short for reliable AI detection", 0) >>,
   details |-> [reason |-> "Insufficient text length for analysis",
                keyIndicators |-> << >>,
                warnings |-> << Message("Analysis may be unreliable for texts under 10 words", 0) >>]]

\* BurstinessAnalyzer.analyze, EntropyAnalyzer.analyze and
\* StylometricAnalyzer.extractFeatures for each text of Texts, computed once
Burstiness == Table([t \in Texts |-> BurstinessAnalyze(t)])
Entropy == Table([t \in Texts |-> EntropyAnalyze(t)])
Stylometry == Table([t \in Texts |-> extractFeatures(t)])

\* PerplexityCalculator.calculate with the model trained once, for each text
\* of Texts, computed once
TrainedPerplexity == Table([t \in Texts |-> calculate(TrainedModel, t)])

\* calculator.calculate(text)
Perplexity(calculator, text) ==
  IF calculator.ngramModel = TrainedModel THEN TrainedPerplexity[text]
  ELSE calculate(calculator.ngramModel, text)

\* Math.round of a number given in hundredths
MathRound(hundredths) == (hundredths + 50) \div 100

\* no regex of AI_PATTERNS has had its lastIndex assigned
NothingWritten == [k \in 1..Len(AI_PATTERNS) |-> << >>]

\* ScoringEngine.analyze on engine `this`, entered with the regexes of
\* AI_PATTERNS at `lastIndex`: the result returned, the lastIndex the
\* regexes are left with, and the values assigned to each lastIndex during
\* the call
analyze(this, text, from) ==
  IF Len(Split(text, WhiteSpace)) < 10
  THEN [result |-> shortTextResult, lastIndex |-> from, written |-> NothingWritten]
  ELSE LET Analyzed(perplexityMetrics, burstinessMetrics, entropyMetrics,
                    stylometryMetrics, fingerprint) ==
         LET
           fingerprintMetrics == fingerprint.result
           metrics == [perplexity |-> perplexityMetrics,
                       burstiness |-> burstinessMetrics,
                       entropy |-> entropyMetrics,
                       stylometry |-> stylometryMetrics,
                       fingerprint |-> fingerprintMetrics]
           scores == [perplexity |-> scorePerplexity(perplexityMetrics),
                      burstiness |-> scoreBurstiness(burstinessMetrics),
                      entropy |-> scoreEntropy(entropyMetrics),
                      stylometry |-> scoreStylometry(stylometryMetrics),
                      fingerprint |-> scoreFingerprint(fingerprintMetrics)]
           aiProbability == combineScores(this.weights, scores)
           confidence == calculateConfidence(perplexityMetrics, burstinessMetrics, entropyMetrics)
       IN [result |-> [aiProbability |-> MathRound(aiProbability),
                       humanProbability |-> MathRound(100 * 100 - aiProbability),
                       scores |-> scores,
                       metrics |-> metrics,
                       confidence |-> confidence,
                       verdict |-> determineVerdict(aiProbability, confidence),
                       recommendations |-> generateRecommendations(scores, metrics),
                       details |-> buildDetails(scores, metrics)],
           lastIndex |-> fingerprint.lastIndex,
           written |-> fingerprint.written]
       IN Analyzed(Perplexity(this.perplexity, text), Burstiness[text], Entropy[text],
                   Stylometry[text], detect(text, from))

(***************************************************************************)
(* The module of the scoring engine as a state machine: the engines that   *)
(* exist, the regexes of AI_PATTERNS that all of them share, and the last  *)
(* call of analyze that has returned.                                      *)
(***************************************************************************)
VARIABLES
  engines,    \* the engines constructed, in the order of their construction
  given,      \* the weights argument each of them was constructed with
  lastIndex,  \* the lastIndex of each regex of AI_PATTERNS
  call,       \* the last call of analyze: its engine, text, result and writes,
              \* and whether a call before it has moved a regex's lastIndex
  input,      \* the arguments of a function applied on its own
  output,     \* its value
  manager,    \* the TextProcessorWorker: worker, pendingTasks, taskIdCounter
  promises,   \* the promises that executeTask has returned, in the order of the calls
  eventLoop,  \* the main thread's timers set by executeTask and its queue of microtasks
  thread      \* the worker thread: the requests and the responses in flight,
              \* the requests it has received and the responses it has posted

\* the state of the scoring engine's module, and that of the worker manager
\* and its worker
engineVars == << engines, given, lastIndex, call, input, output >>
workerVars == << manager, promises, eventLoop, thread >>

vars == << engineVars, workerVars >>

\* the module of the worker manager is loaded: `export const
\* textProcessorWorker = new TextProcessorWorker()`, the field initialisers
\* and initializeWorker, which leaves `worker` a Worker or, when `new Worker`
\* has thrown, null
WorkerConstructed(worker) ==
  /\ manager = [worker |-> worker, pendingTasks |-> << >>, taskIdCounter |-> 0]
  /\ promises = << >>
  /\ eventLoop = [timers |-> << >>, microtasks |-> << >>]
  /\ thread = [inbox |-> << >>, outbox |-> << >>, received |-> << >>, posted |-> << >>]

\* no call of analyze has returned yet
NoCall ==
  [engine |-> 0, text |-> "", result |-> [none |-> TRUE], written |-> NothingWritten,
   movedBefore |-> FALSE]

\* the values assigned to the lastIndex of the regexes: is one of them not 0
Moved(written) ==
  \E k \in DOMAIN written : \E i \in DOMAIN written[k] : written[k][i] > 0

\* no function is applied on its own
NoFunction == [function |-> "none"]

\* the module is loaded: `export const scoringEngine = new ScoringEngine()`,
\* and each regex literal of AI_PATTERNS starts with lastIndex 0
Init ==
  /\ engines = << ScoringEngine([k \in {} |-> 0]) >>
  /\ given = << [k \in {} |-> 0] >>
  /\ lastIndex = [k \in 1..Len(AI_PATTERNS) |-> 0]
  /\ call = NoCall
  /\ input = NoFunction
  /\ output = NoFunction
  /\ WorkerConstructed("Worker")

\* new ScoringEngine(weights)
Construct(weights) ==
  /\ Len(engines) < MaxEngines
  /\ engines' = Append(engines, ScoringEngine(weights))
  /\ given' = Append(given, weights)
  /\ UNCHANGED << lastIndex, call, input, output, workerVars >>

\* engines[e].analyze(text), from the call to the return
Analyze(e, text) ==
  LET Return(returned) ==
        /\ call' = [engine |-> e, text |-> text, result |-> returned.result,
                    written |-> returned.written,
                    movedBefore |-> call.movedBefore \/ Moved(call.written)]
        /\ lastIndex' = returned.lastIndex
        /\ UNCHANGED << engines, given, input, output, workerVars >>
  IN Return(analyze(engines[e], text, lastIndex))

Next ==
  \/ \E weights \in Overrides : Construct(weights)
  \/ \E e \in DOMAIN engines, text \in Texts : Analyze(e, text)

Spec == Init /\ [][Next]_vars

(***************************************************************************)
(* determineVerdict applied on its own, to two aggregate probabilities at  *)
(* one confidence.  Probabilities are in hundredths of a point: the points *)
(* of a grid over [0, 100] and the hundredths next to them.                *)
(***************************************************************************)
Probabilities ==
  LET grid == {(100 * 100 * i) \div VerdictGrid : i \in 0..VerdictGrid}
  IN {p \in UNION {{g - 1, g, g + 1} : g \in grid} : 0 <= p /\ p <= 100 * 100}

Confidences == {"high", "medium", "low"}

VerdictInit ==
  /\ engines = << ScoringEngine([k \in {} |-> 0]) >>
  /\ given = << [k \in {} |-> 0] >>
  /\ lastIndex = [k \in 1..Len(AI_PATTERNS) |-> 0]
  /\ call = NoCall
  /\ input \in {[function |-> "determineVerdict", aiProbability |-> p, other |-> q,
                 confidence |-> c] : p \in Probabilities, q \in Probabilities, c \in Confidences}
  /\ output = NoFunction
  /\ WorkerConstructed("Worker")

\* this.determineVerdict(aiProbability, confidence), for each of the two probabilities
DetermineVerdict ==
  /\ input.function = "determineVerdict"
  /\ output = NoFunction
  /\ output' = [function |-> "determineVerdict",
                verdict |-> determineVerdict(input.aiProbability, input.confidence),
                other |-> determineVerdict(input.other, input.confidence)]
  /\ UNCHANGED << engines, given, lastIndex, call, input, workerVars >>

VerdictNext == DetermineVerdict

VerdictSpec == VerdictInit /\ [][VerdictNext]_vars

(***************************************************************************)
(* The scoring functions of ScoringEngine applied on their own.            *)
(***************************************************************************)
\* the points of a grid of `steps` equal steps over [0, top], and the units
\* next to them
GridAround(top, steps) ==
  LET grid == {(top * i) \div steps : i \in 0..steps}
  IN {p \in UNION {{g - 1, g, g + 1} : g \in grid} : 0 <= p /\ p <= top}

\* the arguments of the function applied: two coefficients of variation (in
\* thousandths) for scoreBurstiness; a perplexity (in hundredths) and a
\* burstiness index (in thousandths) for calculateConfidence, with the
\* aggregate probability handed to determineVerdict next; a perplexity (in
\* hundredths) for scorePerplexity, and a text for calculate; the five scores
\* for generateRecommendations and for buildDetails, each a value of its
\* scoring function; none for shortTextResult; the four features that
\* scoreStylometry reads, each at and next to its thresholds, at 0 and at a
\* greatest value, the type-token ratio also NaN and the average sentence
\* length (in tenths) also Infinity; the number of markers found and the
\* number of words of the text for the result of detect
ScoreInit ==
  LET CoefficientsOfVariation == GridAround(1000, CvGrid)
      perplexityScores ==
        {scorePerplexity([perplexity |-> a]) : a \in GridAround(100 * 100, PerplexityGrid)}
      burstinessScores ==
        {scoreBurstiness([coefficientOfVariation |-> a]) : a \in CoefficientsOfVariation}
      entropyScores ==
        {scoreEntropy([normalizedShannon |-> Finite(a)]) : a \in CoefficientsOfVariation}
      otherScores == GridAround(100, ScoreGrid)
      Near(thresholds, top) ==
        {Finite(v) : v \in {x + d : x \in thresholds, d \in (0 - StyleSpread)..StyleSpread}
                             \cup {0, top}}
  IN /\ engines = << ScoringEngine([k \in {} |-> 0]) >>
     /\ given = << [k \in {} |-> 0] >>
     /\ lastIndex = [k \in 1..Len(AI_PATTERNS) |-> 0]
     /\ call = NoCall
     /\ \/ input \in
          {[function |-> "scoreBurstiness", metrics |-> [coefficientOfVariation |-> a],
            other |-> [coefficientOfVariation |-> b]] :
             a \in CoefficientsOfVariation, b \in CoefficientsOfVariation}
        \/ input \in
          {[function |-> "calculateConfidence", perplexity |-> [perplexity |-> a],
            burstiness |-> [burstinessIndex |-> b], aiProbability |-> q] :
             a \in GridAround(100 * 100, ConfidenceGrid), b \in GridAround(1000, ConfidenceGrid),
             q \in Probabilities}
        \/ input \in
          {[function |-> "scorePerplexity", metrics |-> [perplexity |-> a], text |-> t] :
             a \in GridAround(100 * 100, PerplexityGrid), t \in Texts}
        \/ input \in
          {[function |-> "generateRecommendations",
            scores |-> [perplexity |-> a, burstiness |-> b, entropy |-> c, stylometry |-> d,
                        fingerprint |-> e]] :
             a \in perplexityScores, b \in burstinessScores, c \in entropyScores,
             d \in otherScores, e \in otherScores}
        \/ input \in
          {[function |-> "buildDetails",
            scores |-> [perplexity |-> a, burstiness |-> b, entropy |-> 50, stylometry |-> 50,
                        fingerprint |-> e]] :
             a \in perplexityScores, b \in burstinessScores, e \in otherScores}
        \/ input \in
          {[function |-> "shortTextResult"]}
        \/ input \in
          {[function |-> "scoreStylometry",
            metrics |-> [typeTokenRatio |-> a, functionWordRatio |-> b, polysyllableRatio |-> c,
                         averageSentenceLength |-> d]] :
             a \in Near({300, 500, 700}, 1000) \cup {NaN}, b \in Near({500, 600}, 1000),
             c \in Near({100, 150}, 1000), d \in Near({150, 250}, 400) \cup {PosInfinity}}
        \/ input \in
          {[function |-> "detect", totalMarkers |-> a, wordCount |-> b] :
             a \in 0..MaxMarkers, b \in 1..MaxWords}
     /\ output = NoFunction
     /\ WorkerConstructed("Worker")

\* this.scoreBurstiness(metrics), for each of the two metrics
ScoreBurstiness ==
  /\ input.function = "scoreBurstiness"
  /\ output = NoFunction
  /\ output' = [function |-> "scoreBurstiness",
                score |-> scoreBurstiness(input.metrics),
                other |-> scoreBurstiness(input.other)]
  /\ UNCHANGED << engines, given, lastIndex, call, input, workerVars >>

\* this.calculateConfidence(perplexityMetrics, burstinessMetrics, entropyMetrics),
\* then this.determineVerdict(aiProbability, confidence)
CalculateConfidence ==
  LET Determine(confidence) ==
        output' = [function |-> "calculateConfidence",
                   confidence |-> confidence,
                   verdict |-> determineVerdict(input.aiProbability, confidence)]
  IN /\ input.function = "calculateConfidence"
     /\ output = NoFunction
     /\ Determine(calculateConfidence(input.perplexity, input.burstiness, shortTextMetrics.entropy))
     /\ UNCHANGED << engines, given, lastIndex, call, input, workerVars >>

\* this.scorePerplexity(metrics), and
\* this.scorePerplexity(this.perplexity.calculate(text))
ScorePerplexity ==
  LET Score(perplexityMetrics) ==
        output' = [function |-> "scorePerplexity",
                   score |-> scorePerplexity(input.metrics),
                   calculated |-> perplexityMetrics,
                   calculatedScore |-> scorePerplexity(perplexityMetrics)]
  IN /\ input.function = "scorePerplexity"
     /\ output = NoFunction
     /\ Score(Perplexity(engines[1].perplexity, input.text))
     /\ UNCHANGED << engines, given, lastIndex, call, input, workerVars >>

\* this.generateRecommendations(scores, metrics), with the metrics of a short text
GenerateRecommendations ==
  /\ input.function = "generateRecommendations"
  /\ output = NoFunction
  /\ output' = [function |-> "generateRecommendations",
                scores |-> input.scores,
                recommendations |-> generateRecommendations(input.scores, shortTextMetrics)]
  /\ UNCHANGED << engines, given, lastIndex, call, input, workerVars >>

\* this.buildDetails(scores, metrics), with the metrics of a short text
BuildDetails ==
  /\ input.function = "buildDetails"
  /\ output = NoFunction
  /\ output' = [function |-> "buildDetails",
                scores |-> input.scores,
                details |-> buildDetails(input.scores, shortTextMetrics)]
  /\ UNCHANGED << engines, given, lastIndex, call, input, workerVars >>

\* this.shortTextResult()
ShortTextResult ==
  /\ input.function = "shortTextResult"
  /\ output = NoFunction
  /\ output' = [function |-> "shortTextResult",
                scores |-> shortTextResult.scores,
                recommendations |-> shortTextResult.recommendations,
                details |-> shortTextResult.details]
  /\ UNCHANGED << engines, given, lastIndex, call, input, workerVars >>

\* this.scoreStylometry(metrics)
ScoreStylometry ==
  /\ input.function = "scoreStylometry"
  /\ output = NoFunction
  /\ output' = [function |-> "scoreStylometry", score |-> scoreStylometry(input.metrics)]
  /\ UNCHANGED << engines, given, lastIndex, call, input, workerVars >>

\* the end of AIFingerprintDetector.detect(text) for a text of wordCount
\* words in which totalMarkers marker words were found, then
\* this.scoreFingerprint(fingerprintMetrics) and
\* this.buildDetails(scores, metrics), the other metrics those of a short text
Detect ==
  LET wordMatches == [k \in 1..input.totalMarkers |-> [value |-> "delve", position |-> k]]
      noPatterns == [matches |-> << >>, lastIndex |-> lastIndex, written |-> NothingWritten]
      Score(fingerprintMetrics) ==
        output' = [function |-> "detect",
                   metrics |-> fingerprintMetrics,
                   score |-> scoreFingerprint(fingerprintMetrics),
                   details |->
                     buildDetails([shortTextResult.scores EXCEPT
                                     !.fingerprint = scoreFingerprint(fingerprintMetrics)],
                                  [shortTextMetrics EXCEPT !.fingerprint = fingerprintMetrics])]
  IN /\ input.function = "detect"
     /\ output = NoFunction
     /\ Score(Detected(wordMatches, << >>, noPatterns, input.wordCount).result)
     /\ UNCHANGED << engines, given, lastIndex, call, input, workerVars >>

ScoreNext ==
  \/ ScoreBurstiness
  \/ ScorePerplexity
  \/ GenerateRecommendations
  \/ BuildDetails
  \/ ShortTextResult
  \/ ScoreStylometry
  \/ CalculateConfidence
  \/ Detect

ScoreSpec == ScoreInit /\ [][ScoreNext]_vars

(***************************************************************************)
(* NGramModel.probability of the model trained on the built-in corpus,     *)
(* call by call: probability and backoffProbability call each other in     *)
(* tail position, so the call in hand is all there is of the stack.        *)
(* output.at is the function whose body runs next ("returned" when the     *)
(* outermost call has returned), output.context its parameter context,     *)
(* output.backoffs the number of calls of backoffProbability so far.       *)
(***************************************************************************)
\* the arguments: a word that the corpus has or has not, and a context of up
\* to MaxContext words, among them bigrams that the corpus has ("the
\* theoretical", "theoretical framework"); a text for calculate
ProbabilityInit ==
  LET words == {"framework", "the", "although", "to", "zzz"}
      contextWords == {"the", "theoretical", "framework", "zzz"}
      contexts == UNION {[1..n -> contextWords] : n \in 0..MaxContext}
  IN /\ engines = << ScoringEngine([k \in {} |-> 0]) >>
     /\ given = << [k \in {} |-> 0] >>
     /\ lastIndex = [k \in 1..Len(AI_PATTERNS) |-> 0]
     /\ call = NoCall
     /\ \/ input \in {[function |-> "probability", word |-> w, context |-> c] :
                         w \in words, c \in contexts}
        \/ input \in {[function |-> "scorePerplexity", metrics |-> [perplexity |-> 0],
                         text |-> t] : t \in Texts}
     /\ output = NoFunction
     /\ WorkerConstructed("Worker")

\* the body of NGramModel.probability(word, context): the outermost call, or
\* the call that backoffProbability has made
Probability ==
  LET Body(context, backoffs) ==
        LET contextStr == JoinWords(context)
            contextCount == GetOr0(TrainedModel.contextCounts, contextStr)
        IN output' =
             IF contextCount = 0 \/ contextStr \notin DOMAIN TrainedModel.frequencies
             THEN [function |-> "probability", at |-> "backoffProbability",
                   context |-> context, backoffs |-> backoffs + 1, value |-> << 0, 0 >>]
             ELSE [function |-> "probability", at |-> "returned",
                   context |-> context, backoffs |-> backoffs,
                   value |-> probability(TrainedModel, input.word, context)]
  IN /\ input.function = "probability"
     /\ IF output = NoFunction THEN Body(input.context, 0)
        ELSE output.at = "probability" /\ Body(output.context, output.backoffs)
     /\ UNCHANGED << engines, given, lastIndex, call, input, workerVars >>

\* the body of NGramModel.backoffProbability(word, context) with
\* context.slice(1) left as it is
BackoffProbabilityKeepingContext ==
  LET Body(shorterContext) ==
        output' =
          IF Len(shorterContext) = 0
          THEN [output EXCEPT !.at = "returned",
                              !.value = UnigramProbability(TrainedModel, input.word)]
          ELSE [output EXCEPT !.at = "probability", !.context = shorterContext]
  IN /\ input.function = "probability"
     /\ output # NoFunction
     /\ output.at = "backoffProbability"
     /\ Body(output.context)
     /\ UNCHANGED << engines, given, lastIndex, call, input, workerVars >>

\* the body of NGramModel.backoffProbability(word, context)
BackoffProbability ==
  LET Body(shorterContext) ==
        output' =
          IF Len(shorterContext) = 0
          THEN [output EXCEPT !.at = "returned",
                              !.value = UnigramProbability(TrainedModel, input.word)]
          ELSE [output EXCEPT !.at = "probability", !.context = shorterContext]
  IN /\ input.function = "probability"
     /\ output # NoFunction
     /\ output.at = "backoffProbability"
     /\ Body(IF Len(output.context) = 0 THEN << >> ELSE Tail(output.context))
     /\ UNCHANGED << engines, given, lastIndex, call, input, workerVars >>

ProbabilityNext ==
  \/ Probability
  \/ BackoffProbability
  \/ ScorePerplexity

\* a call that has been made runs on: JavaScript runs a function to its return
ProbabilitySpec == ProbabilityInit /\ [][ProbabilityNext]_vars /\ WF_vars(ProbabilityNext)

(***************************************************************************)
(* workerManager.ts: the TextProcessorWorker of the main thread and the    *)
(* message handler of the worker thread.                                   *)
(*                                                                         *)
(* A promise is [id, state, message, result, settled]: the id of its task  *)
(* (<< >> when executeTask has thrown before making one), "pending",       *)
(* "resolved" with the result or "rejected" with the message of the Error, *)
(* and the number of calls of its resolve and reject so far.  pendingTasks *)
(* maps the id of a task to the promise whose resolve and reject it holds. *)
(* A timer is "armed" once set, "cleared" once clearTimeout was called on  *)
(* it, and after its 30 seconds "fired" (its callback has run) or "lapsed" *)
(* (it had been cleared).  A handler of the main thread's event loop runs  *)
(* only when no microtask is queued; executeTask and terminate are called  *)
(* by code that may run before the queued microtasks do.                   *)
(***************************************************************************)
\* resolve(result) or reject(new Error(message)) of promise p: a promise
\* that is settled stays as it is
Settle(ps, p, state, message, result) ==
  [ps EXCEPT ![p] = IF ps[p].state = "pending"
                    THEN [id |-> ps[p].id, state |-> state, message |-> message,
                          result |-> result, settled |-> ps[p].settled + 1]
                    ELSE [ps[p] EXCEPT !.settled = @ + 1]]

\* the state after construction, the worker there or not
WorkerInit ==
  /\ engines = << ScoringEngine([k \in {} |-> 0]) >>
  /\ given = << [k \in {} |-> 0] >>
  /\ lastIndex = [k \in 1..Len(AI_PATTERNS) |-> 0]
  /\ call = NoCall
  /\ input = NoFunction
  /\ output = NoFunction
  /\ \E worker \in {"Worker", "null"} : WorkerConstructed(worker)

\* executeTask(type, data), up to the return of the promise; data is the
\* number of the call
ExecuteTask(type) ==
  LET p == Len(promises) + 1
      n == manager.taskIdCounter + 1
      id == << "task_", n >>
  IN /\ Len(promises) < MaxTasks
     /\ IF manager.worker = "null"
        THEN /\ promises' = Append(promises, [id |-> << >>, state |-> "rejected",
                                              message |-> "Worker not available",
                                              result |-> << >>, settled |-> 1])
             /\ UNCHANGED << manager, eventLoop, thread >>
        ELSE /\ manager' = [manager EXCEPT !.taskIdCounter = n,
                                           !.pendingTasks = (id :> p) @@ manager.pendingTasks]
             /\ promises' = Append(promises, [id |-> id, state |-> "pending", message |-> "",
                                              result |-> << >>, settled |-> 0])
             /\ eventLoop' = [timers |-> (p :> "armed") @@ eventLoop.timers,
                              microtasks |-> Append(eventLoop.microtasks, p)]
             /\ thread' = [thread EXCEPT !.inbox = Append(@, [id |-> id, type |-> type,
                                                              data |-> p])]
     /\ UNCHANGED engineVars

\* the microtask of executeTask: Promise.resolve().then(() => clearTimeout(timeout))
ClearTimeout ==
  LET Run(p) ==
        eventLoop' = [timers |-> [eventLoop.timers EXCEPT
                                    ![p] = IF @ = "armed" THEN "cleared" ELSE @],
                      microtasks |-> Tail(eventLoop.microtasks)]
  IN /\ eventLoop.microtasks # << >>
     /\ Run(Head(eventLoop.microtasks))
     /\ UNCHANGED << engineVars, manager, promises, thread >>

\* 30000 ms after call p of executeTask: the callback of its setTimeout
\* runs, unless the timer has been cleared
Timeout(p) ==
  LET pending == manager.pendingTasks
      id == promises[p].id
  IN /\ eventLoop.microtasks = << >>
     /\ p \in DOMAIN eventLoop.timers
     /\ eventLoop.timers[p] \in {"armed", "cleared"}
     /\ IF eventLoop.timers[p] = "armed"
        THEN /\ eventLoop' = [eventLoop EXCEPT !.timers[p] = "fired"]
             /\ manager' = [manager EXCEPT
                              !.pendingTasks = [k \in DOMAIN pending \ {id} |-> pending[k]]]
             /\ promises' = Settle(promises, p, "rejected", "Worker task timeout", << >>)
        ELSE /\ eventLoop' = [eventLoop EXCEPT !.timers[p] = "lapsed"]
             /\ UNCHANGED << manager, promises >>
     /\ UNCHANGED << engineVars, thread >>

\* onmessage without this.pendingTasks.delete(id)
OnMessageKeepingTask ==
  LET pending == manager.pendingTasks
      Receive(response) ==
        LET Task(p) ==
              /\ UNCHANGED manager
              /\ promises' =
                   IF response.type = "success"
                   THEN Settle(promises, p, "resolved", "", response.result)
                   ELSE Settle(promises, p, "rejected",
                               IF response.error = "" THEN "Unknown worker error"
                               ELSE response.error, << >>)
        IN IF response.id \in DOMAIN pending THEN Task(pending[response.id])
           ELSE UNCHANGED << manager, promises >>
  IN /\ eventLoop.microtasks = << >>
     /\ thread.outbox # << >>
     /\ Receive(Head(thread.outbox))
     /\ thread' = [thread EXCEPT !.outbox = Tail(@)]
     /\ UNCHANGED << engineVars, eventLoop >>

\* this.worker.onmessage, for the response that arrives next
OnMessage ==
  LET pending == manager.pendingTasks
      Receive(response) ==
        LET id == response.id
            Task(p) ==
              /\ manager' = [manager EXCEPT
                               !.pendingTasks = [k \in DOMAIN pending \ {id} |-> pending[k]]]
              /\ promises' =
                   IF response.type = "success"
                   THEN Settle(promises, p, "resolved", "", response.result)
                   ELSE Settle(promises, p, "rejected",
                               IF response.error = "" THEN "Unknown worker error"
                               ELSE response.error, << >>)
        IN IF id \in DOMAIN pending THEN Task(pending[id])
           ELSE UNCHANGED << manager, promises >>
  IN /\ eventLoop.microtasks = << >>
     /\ thread.outbox # << >>
     /\ Receive(Head(thread.outbox))
     /\ thread' = [thread EXCEPT !.outbox = Tail(@)]
     /\ UNCHANGED << engineVars, eventLoop >>

\* onerror without this.pendingTasks.clear()
OnErrorKeepingTasks ==
  LET pending == manager.pendingTasks
      held == {pending[id] : id \in DOMAIN pending}
  IN /\ eventLoop.microtasks = << >>
     /\ manager.worker = "Worker"
     /\ promises' = [p \in DOMAIN promises |->
                       IF p \in held
                       THEN Settle(promises, p, "rejected", "Worker crashed", << >>)[p]
                       ELSE promises[p]]
     /\ UNCHANGED << engineVars, manager, eventLoop, thread >>

\* this.worker.onerror
OnError ==
  LET pending == manager.pendingTasks
      held == {pending[id] : id \in DOMAIN pending}
  IN /\ eventLoop.microtasks = << >>
     /\ manager.worker = "Worker"
     /\ promises' = [p \in DOMAIN promises |->
                       IF p \in held
                       THEN Settle(promises, p, "rejected", "Worker crashed", << >>)[p]
                       ELSE promises[p]]
     /\ manager' = [manager EXCEPT !.pendingTasks = << >>]
     /\ UNCHANGED << engineVars, eventLoop, thread >>

\* terminate(): the worker stops and the requests sent to it are dropped;
\* the responses it has posted already arrive or do not
Terminate ==
  /\ IF manager.worker = "Worker"
     THEN \E delivered \in BOOLEAN :
            thread' = [thread EXCEPT !.inbox = << >>,
                                     !.outbox = IF delivered THEN @ ELSE << >>]
     ELSE UNCHANGED thread
  /\ manager' = [manager EXCEPT !.worker = "null", !.pendingTasks = << >>]
  /\ UNCHANGED << engineVars, promises, eventLoop >>

\* self.onmessage without the catch block
SelfOnMessageUncaught ==
  LET Handle(request) ==
        LET known == request.type \in {"analyze", "humanize", "rewrite", "check-plagiarism"}
            Run(thrown, message) ==
              LET success == [id |-> request.id, type |-> "success",
                              result |-> << request.type, request.data >>, error |-> ""]
                  posts == IF thrown THEN << >> ELSE << success >>
              IN thread' = [inbox |-> Tail(thread.inbox),
                            outbox |-> thread.outbox \o posts,
                            received |-> Append(thread.received,
                                                [id |-> request.id, type |-> request.type,
                                                 thrown |-> thrown]),
                            posted |-> thread.posted \o posts]
        IN IF known
           THEN \/ Run(FALSE, "")
                \/ \E message \in {"Cannot read properties of undefined", ""} : Run(TRUE, message)
           ELSE Run(TRUE, "Unknown operation type: " \o request.type)
  IN /\ thread.inbox # << >>
     /\ Handle(Head(thread.inbox))
     /\ UNCHANGED << engineVars, manager, promises, eventLoop >>

\* self.onmessage of the worker thread, for the request that arrives next:
\* the handler of a known type returns or throws an Error
SelfOnMessage ==
  LET Handle(request) ==
        LET known == request.type \in {"analyze", "humanize", "rewrite", "check-plagiarism"}
            Run(thrown, message) ==
              LET success == [id |-> request.id, type |-> "success",
                              result |-> << request.type, request.data >>, error |-> ""]
                  caught == [id |-> request.id, type |-> "error", result |-> << >>,
                             error |-> message]
                  posts == (IF thrown THEN << >> ELSE << success >>)
                             \o (IF thrown THEN << caught >> ELSE << >>)
              IN thread' = [inbox |-> Tail(thread.inbox),
                            outbox |-> thread.outbox \o posts,
                            received |-> Append(thread.received,
                                                [id |-> request.id, type |-> request.type,
                                                 thrown |-> thrown]),
                            posted |-> thread.posted \o posts]
        IN IF known
           THEN \/ Run(FALSE, "")
                \/ \E message \in {"Cannot read properties of undefined", ""} : Run(TRUE, message)
           ELSE Run(TRUE, "Unknown operation type: " \o request.type)
  IN /\ thread.inbox # << >>
     /\ Handle(Head(thread.inbox))
     /\ UNCHANGED << engineVars, manager, promises, eventLoop >>

WorkerNext ==
  \/ \E type \in {"analyze", "translate"} : ExecuteTask(type)
  \/ ClearTimeout
  \/ \E p \in 1..MaxTasks : Timeout(p)
  \/ OnMessage
  \/ OnError
  \/ Terminate
  \/ SelfOnMessage

\* the event loop of the main thread runs the microtasks, the timers that
\* are due and the handlers of the messages that have arrived; the worker
\* thread may take any time
WorkerSpec ==
  /\ WorkerInit
  /\ [][WorkerNext]_vars
  /\ WF_vars(ClearTimeout)
  /\ WF_vars(\E p \in 1..MaxTasks : Timeout(p))
  /\ WF_vars(OnMessage)

(***************************************************************************)
(* The properties.                                                         *)
(***************************************************************************)
\* a call of analyze has returned
Returned == call.engine # 0

\* the engine of the call has the default weights
DefaultWeights == engines[call.engine].weights = DEFAULT_WEIGHTS

\* the call has passed the test `text.split(/\s+/).length < 10`
FullAnalysis == Returned /\ Len(Split(call.text, WhiteSpace)) >= 10

\* the number of maximal runs of non-whitespace characters of text
WordCount(text) ==
  Cardinality({p \in 1..Len(text) : /\ Ch(text, p) \notin WhiteSpace
                                    /\ (p = 1 \/ Ch(text, p - 1) \in WhiteSpace)})

\* the fixed neutral result
Neutral(result) ==
  /\ result.aiProbability = 50
  /\ result.humanProbability = 50
  /\ result.confidence = "low"
  /\ result.verdict = "Uncertain"

\* C1: for every text of fewer than 10 words (maximal runs of non-whitespace
\* characters), analyze returns the neutral result: 50/50, confidence
\* 'low', verdict 'Uncertain'.
C1_FewWordsNeutral == (Returned /\ WordCount(call.text) < 10) => Neutral(call.result)

\* C2: with the default weights, every result of analyze has
\* aiProbability + humanProbability = 100.
C2_ProbabilitiesSumTo100 ==
  (Returned /\ DefaultWeights) => call.result.aiProbability + call.result.humanProbability = 100

\* C3: with the default weights, every result of analyze has each of the
\* five sub-scores in [0, 100] and aiProbability in [0, 100].
C3_ScoresInRange ==
  (Returned /\ DefaultWeights) =>
    /\ DOMAIN call.result.scores
         = {"perplexity", "burstiness", "entropy", "stylometry", "fingerprint"}
    /\ \A k \in DOMAIN call.result.scores : call.result.scores[k] \in 0..100
    /\ call.result.aiProbability \in 0..100

\* a full analysis with the default weights whose marker density (in
\* hundredths) is above 4, so that 25 times the density is above 100
C3_CappedFingerprint ==
  /\ FullAnalysis
  /\ DefaultWeights
  /\ call.result.metrics.fingerprint.density > 400
  /\ call.result.scores.fingerprint = 100

\* the seven labels, from the least to the most AI-leaning, and the least
\* probability (in hundredths) of each
VerdictLabels ==
  << "Definitely Human", "Likely Human", "Possibly Human", "Uncertain", "Possibly AI",
     "Likely AI", "Definitely AI" >>
VerdictFrom == << 0, 1500, 3000, 4500, 5500, 7000, 8500 >>
Leaning(label) == CHOOSE i \in DOMAIN VerdictLabels : VerdictLabels[i] = label

\* C4: determineVerdict maps every aggregate probability in [0, 100] to
\* exactly one of the seven labels, the one the table gives (>= 85, >= 70,
\* >= 55, >= 45, >= 30, >= 15, else), and a higher probability never has a
\* less AI-leaning label.
C4_VerdictTable ==
  output.function = "determineVerdict" =>
    /\ \A verdict \in {output.verdict, output.other} :
         Cardinality({i \in DOMAIN VerdictLabels : VerdictLabels[i] = verdict}) = 1
    /\ Leaning(output.verdict)
         = Cardinality({i \in DOMAIN VerdictFrom : VerdictFrom[i] <= input.aiProbability})
    /\ input.aiProbability <= input.other => Leaning(output.verdict) <= Leaning(output.other)

\* determineVerdict has been applied to 54.99 and to 55, on the two sides of
\* a threshold
C4_AcrossThreshold ==
  /\ output.function = "determineVerdict"
  /\ input.aiProbability = 5499
  /\ input.other = 5500
  /\ output.verdict = "Uncertain"
  /\ output.other = "Possibly AI"

\* the lastIndex of the regexes of AI_PATTERNS in a module just loaded
Fresh == [k \in 1..Len(AI_PATTERNS) |-> 0]

\* C5: a call of analyze returns, whatever calls came before it on whatever
\* texts and engines, the result that the same call returns in a module
\* just loaded: nothing an earlier call has left behind, the lastIndex of
\* the regexes of AI_PATTERNS included, changes a result.
C5_SameResultEveryTime ==
  Returned => call.result = analyze(engines[call.engine], call.text, Fresh).result

\* a call that found matches of AI_PATTERNS has returned after an earlier
\* call had moved the lastIndex of a regex
C5_PatternsAfterPatterns ==
  /\ Returned
  /\ call.movedBefore
  /\ call.result.metrics.fingerprint.patternMatchCount > 0

\* the text is empty or holds whitespace only
WhitespaceOnly(text) == \A p \in 1..Len(text) : Ch(text, p) \in WhiteSpace

\* C6: for the empty string and every whitespace-only string, analyze
\* returns (it does not throw), and returns the neutral result of the
\* short-text branch.
C6_BlankTextsNeutral ==
  (Returned /\ WhitespaceOnly(call.text)) =>
    /\ Neutral(call.result)
    /\ call.result.details.reason = "Insufficient text length for analysis"

\* analyze has returned from a call on a whitespace-only text that is not empty
C6_BlankTextAnalyzed ==
  /\ Returned
  /\ call.text # ""
  /\ WhitespaceOnly(call.text)
  /\ call.result.aiProbability = 50

\* C7: in every full analysis, typeTokenRatio, averageSentenceLength,
\* averageWordLength, the least and greatest sentence length and
\* normalizedShannon are numbers (not NaN, not infinite), and each is 0
\* when its denominator is empty (no word tokens, no sentences).
C7_EmptyDenominatorsGiveZero ==
  FullAnalysis =>
    LET stylometry == call.result.metrics.stylometry
        distribution == call.result.metrics.burstiness.lengthDistribution
        normalizedShannon == call.result.metrics.entropy.normalizedShannon
    IN /\ \A ratio \in {stylometry.typeTokenRatio, stylometry.averageSentenceLength,
                         stylometry.averageWordLength, distribution.min, distribution.max,
                         normalizedShannon} : ratio.kind = "finite"
       /\ StyleTokenize(call.text) = << >> =>
            stylometry.typeTokenRatio.v = 0 /\ stylometry.averageWordLength.v = 0
       /\ StyleExtractSentences(call.text) = << >> => stylometry.averageSentenceLength.v = 0
       /\ extractSentences(call.text) = << >> => distribution.min.v = 0 /\ distribution.max.v = 0

C9_ModelTrainedOnce ==
  \A e \in DOMAIN engines : engines[e].perplexity.ngramModel = TrainedModel

\* an engine constructed after the first has computed a perplexity from its model
C9_SecondEngineAnalyzed ==
  /\ FullAnalysis
  /\ call.engine > 1
  /\ call.result.metrics.perplexity.tokenCount > 0
  /\ call.result.metrics.perplexity.perplexity > 0

\* the names of the weights, and the defaults 0.30, 0.25, 0.15, 0.15, 0.15
\* in hundredths
WeightNames == {"perplexity", "burstiness", "entropy", "stylometry", "fingerprint"}
DocumentedDefaults ==
  [k \in WeightNames |-> IF k = "perplexity" THEN 30 ELSE IF k = "burstiness" THEN 25 ELSE 15]

\* the weight given to the constructor of engine e, the default where none was given
Effective(e) ==
  [k \in WeightNames |-> IF k \in DOMAIN given[e] THEN given[e][k] ELSE DocumentedDefaults[k]]

\* Math.round of the sum of score * weight over the five names
RoundedSum(scores, weights) ==
  (scores.perplexity * weights.perplexity + scores.burstiness * weights.burstiness
     + scores.entropy * weights.entropy + scores.stylometry * weights.stylometry
     + scores.fingerprint * weights.fingerprint + 50) \div 100

\* every engine has the weights given to its constructor and the defaults
\* for the others
WeightsMerged == \A e \in DOMAIN engines : engines[e].weights = Effective(e)

\* C10 as stated: the weights are merged and the aiProbability of every
\* result is the rounded weighted sum of its five scores.
C10_WeightedSumReported ==
  /\ WeightsMerged
  /\ Returned =>
       call.result.aiProbability = RoundedSum(call.result.scores, Effective(call.engine))

\* C10 amended: the weights are merged and the aiProbability of every
\* result of a full analysis is the rounded weighted sum of its five scores.
C10_WeightedSumOfFullAnalysis ==
  /\ WeightsMerged
  /\ FullAnalysis =>
       call.result.aiProbability = RoundedSum(call.result.scores, Effective(call.engine))

\* a full analysis on an engine constructed with an override that changes
\* the aiProbability
C10_OverrideApplied ==
  /\ FullAnalysis
  /\ DOMAIN given[call.engine] # {}
  /\ call.result.aiProbability # RoundedSum(call.result.scores, DocumentedDefaults)

\* the engine of the call was constructed with all five weights
FiveWeightsGiven == DOMAIN given[call.engine] = WeightNames

\* C11: on an engine constructed with five non-negative weights, whatever
\* their sum, every result of analyze has aiProbability in [0, 100],
\* humanProbability in [0, 100] and the two summing to 100.
C11_OverriddenProbabilitiesInRange ==
  (Returned /\ FiveWeightsGiven /\ \A k \in WeightNames : given[call.engine][k] >= 0) =>
    /\ call.result.aiProbability \in 0..100
    /\ call.result.humanProbability \in 0..100
    /\ call.result.aiProbability + call.result.humanProbability = 100

\* the rows of the burstiness table: the coefficient of variation (in
\* thousandths) from which each row but the first applies, and the scores
BurstinessFrom == << 200, 300, 400, 500, 600, 750 >>
BurstinessScores == << 90, 75, 60, 45, 30, 20, 10 >>

\* C12: scoreBurstiness gives the score of the table (CV < 0.2 -> 90,
\* < 0.3 -> 75, < 0.4 -> 60, < 0.5 -> 45, < 0.6 -> 30, < 0.75 -> 20,
\* else 10), and of two coefficients of variation the greater never has
\* the greater score.
C12_BurstinessNonIncreasing ==
  output.function = "scoreBurstiness" =>
    LET a == input.metrics.coefficientOfVariation
        b == input.other.coefficientOfVariation
    IN /\ output.score
            = BurstinessScores[1 + Cardinality({i \in DOMAIN BurstinessFrom : BurstinessFrom[i] <= a})]
       /\ a <= b => output.score >= output.other

\* scoreBurstiness has been applied to 0.299 and to 0.3, on the two sides
\* of a row of the table
C12_AcrossRow ==
  /\ output.function = "scoreBurstiness"
  /\ input.metrics.coefficientOfVariation = 299
  /\ input.other.coefficientOfVariation = 300
  /\ output.score = 75
  /\ output.other = 60

\* C13: in every full analysis, shannonEntropy is 0 for a text of one
\* repeated character and above 0 for a text of two or more distinct
\* characters, and wordEntropy is above 0 for a text of two or more
\* distinct lowercase tokens.
C13_EntropyOfDistribution ==
  FullAnalysis =>
    LET entropy == call.result.metrics.entropy
        characters == CharsOf(call.text)
        words == NonEmpty(Split(toLowerCase(call.text), WhiteSpace))
    IN /\ Cardinality(characters) = 1 => entropy.shannonEntropy = 0
       /\ Cardinality(characters) >= 2 => entropy.shannonEntropy > 0
       /\ Cardinality({words[i] : i \in DOMAIN words}) >= 2 => entropy.wordEntropy > 0

\* the conditional entropy of text (in thousandths) with a 1-word context
\* when the word scored at each position i of the loop is tokens[i + 1],
\* the word that follows the context tokens[i]
FollowingWordEntropy(text) ==
  LET tokens == NonEmpty(Split(toLowerCase(text), WhiteSpace))
      positions == 1..(Len(tokens) - 2)
      Bits(probs, word) == Log2Ratio(probs.total, probs.count[word])
      bits == [i \in positions |->
                 Bits(getContextProbabilities(tokens, << tokens[i] >>, i), tokens[i + 1])]
  IN IF positions = {} THEN 0
     ELSE RoundDiv(1000 * SumOver(positions, bits), 4096 * Cardinality(positions))

\* C14: the conditional entropy of every full analysis is the one in which
\* the word scored at position i is the word that immediately follows the
\* context word tokens[i], looked up among the words that follow that
\* context in the text.
C14_FollowingWordScored ==
  FullAnalysis => call.result.metrics.entropy.conditionalEntropy = FollowingWordEntropy(call.text)

\* C15: in every result of analyze, the verdict is the one that the
\* threshold table gives for the reported integer aiProbability.
C15_VerdictOfReportedProbability ==
  Returned =>
    call.result.verdict = determineVerdict(100 * call.result.aiProbability, call.result.confidence)

PerplexityFrom == << 1000, 2000, 3000, 4500, 6000, 8000 >>
PerplexityScores == << 95, 85, 70, 55, 40, 25, 10 >>

\* the score that the table gives a perplexity, and 50 for perplexity 0
TabledPerplexity(perplexity) ==
  IF perplexity = 0 THEN 50
  ELSE PerplexityScores[1 + Cardinality({i \in DOMAIN PerplexityFrom : PerplexityFrom[i] <= perplexity})]

\* C17: scorePerplexity gives the score of the table (< 10 -> 95, < 20 -> 85,
\* < 30 -> 70, < 45 -> 55, < 60 -> 40, < 80 -> 25, else 10) but 50 for
\* perplexity 0; and calculate returns perplexity 0 exactly for the texts
\* of fewer than 5 tokens, with the interpretation 'natural'.
C17_PerplexityTable ==
  output.function = "scorePerplexity" =>
    /\ output.score = TabledPerplexity(input.metrics.perplexity)
    /\ output.calculatedScore = TabledPerplexity(output.calculated.perplexity)
    /\ output.calculated.perplexity = 0 <=> Len(PerplexityTokenize(input.text)) < 5
    /\ output.calculated.perplexity = 0 => output.calculated.interpretation = "natural"

\* scorePerplexity has been applied to perplexity 0.01, and to the
\* perplexity 0 that calculate returns for a text of two tokens
C17_NearZeroAndZero ==
  /\ output.function = "scorePerplexity"
  /\ input.metrics.perplexity = 1
  /\ output.score = 95
  /\ Len(PerplexityTokenize(input.text)) = 2
  /\ output.calculated.perplexity = 0
  /\ output.calculatedScore = 50

\* the advisory of each of the five conditions, in the order perplexity,
\* burstiness, fingerprint, stylometry, entropy, and the message for none
Advisories ==
  << "Text shows highly predictable patterns - consider varying sentence structures",
     "Sentence lengths are very uniform - introduce more variation",
     "Detected ${markerWordCount} AI-specific words - replace with more natural alternatives",
     "Writing shows AI-typical patterns - add more personal voice and variation",
     "Text entropy is low - introduce more vocabulary diversity" >>
NaturalWriting == "Text shows natural human writing patterns"

\* which of the five conditions the scores trigger
Triggered(scores) ==
  << scores.perplexity > 60, scores.burstiness > 60, scores.fingerprint > 40,
     scores.stylometry > 60, scores.entropy < 30 >>

\* the list is not empty, holds the advisory of each triggered condition
\* once and of no other, and is the single natural-writing message exactly
\* when no condition is triggered
OnePerCondition(scores, recommendations) ==
  LET texts == [j \in DOMAIN recommendations |-> recommendations[j].text]
      Times(text) == Cardinality({j \in DOMAIN texts : texts[j] = text})
  IN /\ Len(recommendations) >= 1
     /\ \A i \in DOMAIN Advisories :
          Times(Advisories[i]) = IF Triggered(scores)[i] THEN 1 ELSE 0
     /\ \A j \in DOMAIN texts :
          texts[j] = NaturalWriting \/ \E i \in DOMAIN Advisories : texts[j] = Advisories[i]
     /\ texts = << NaturalWriting >> <=> \A i \in DOMAIN Advisories : ~Triggered(scores)[i]
     /\ Times(NaturalWriting) > 0 => texts = << NaturalWriting >>

PerplexityReason == "Primary indicator is text predictability (perplexity analysis)"
BurstinessReason == "Primary indicator is uniform sentence structure (burstiness analysis)"
FingerprintReason == "Primary indicator is AI-specific linguistic markers (fingerprint analysis)"

\* the reason names a greatest of the three scores: perplexity when no score
\* is above it, else burstiness when no score is above it, and fingerprint
\* only when it is above both
ReasonNamesMaximum(scores, reason) ==
  LET p == scores.perplexity
      b == scores.burstiness
      f == scores.fingerprint
  IN /\ reason \in {PerplexityReason, BurstinessReason, FingerprintReason}
     /\ reason = PerplexityReason <=> (p >= b /\ p >= f)
     /\ reason = BurstinessReason <=> (~(p >= b /\ p >= f) /\ b >= p /\ b >= f)
     /\ reason = FingerprintReason <=> (f > p /\ f > b)
     /\ reason = BurstinessReason => b = Max(p, Max(b, f))

\* C19 as stated: details.reason of every result, that of a short text
\* included, names a greatest of the perplexity, burstiness and fingerprint
\* scores.
C19_ReasonNamesMaximumInEveryResult ==
  output.function \in {"buildDetails", "shortTextResult"} =>
    ReasonNamesMaximum(output.scores, output.details.reason)

\* C19 amended: the reason that buildDetails returns, that of every text
\* that passes the short-text gate, names a greatest of the three scores:
\* perplexity on a tie with it, fingerprint only when strictly greatest.
C19_ReasonNamesMaximumBuilt ==
  output.function = "buildDetails" =>
    ReasonNamesMaximum(output.scores, output.details.reason)

\* buildDetails has named perplexity with burstiness equal to it
C19_TieGoesToPerplexity ==
  /\ output.function = "buildDetails"
  /\ output.scores.perplexity = 10
  /\ output.scores.burstiness = 10
  /\ output.scores.fingerprint = 1
  /\ output.details.reason = PerplexityReason

\* 50, plus 20 for a type-token ratio below 0.3, else plus 10 below 0.5, else
\* minus 15 above 0.7; plus 15 for a function-word ratio above 0.5 and 10
\* more above 0.6; plus 15 for a polysyllable ratio below 0.1 and 10 below
\* 0.15; plus 10 when the average sentence length is in the band; clamped
\* to [0, 100]
StylometryFormula(metrics, inBand) ==
  LET sum == 50
        + (IF Less(metrics.typeTokenRatio, 300) THEN 20
           ELSE IF Less(metrics.typeTokenRatio, 500) THEN 10
           ELSE IF Greater(metrics.typeTokenRatio, 700) THEN 0 - 15
           ELSE 0)
        + (IF Greater(metrics.functionWordRatio, 600) THEN 25
           ELSE IF Greater(metrics.functionWordRatio, 500) THEN 15
           ELSE 0)
        + (IF Less(metrics.polysyllableRatio, 100) THEN 25
           ELSE IF Less(metrics.polysyllableRatio, 150) THEN 10
           ELSE 0)
        + (IF inBand THEN 10 ELSE 0)
  IN IF sum > 100 THEN 100 ELSE IF sum < 0 THEN 0 ELSE sum

\* C20 as stated: scoreStylometry gives the clamped sum with 10 added for
\* an average sentence length from 15 to 25, both ends included.
C20_StylometryBandInclusive ==
  output.function = "scoreStylometry" =>
    LET length == input.metrics.averageSentenceLength
    IN output.score
         = StylometryFormula(input.metrics,
                             length.kind = "finite" /\ 150 <= length.v /\ length.v <= 250)

\* C20 amended: scoreStylometry gives the clamped sum with 10 added for an
\* average sentence length above 15 and below 25, both ends excluded.
C20_StylometryBandExclusive ==
  output.function = "scoreStylometry" =>
    LET length == input.metrics.averageSentenceLength
    IN output.score
         = StylometryFormula(input.metrics,
                             length.kind = "finite" /\ 150 < length.v /\ length.v < 250)

\* scoreStylometry has been applied to features that all lie on a
\* threshold, the average sentence length on 15, and has added nothing to 50
C20_OnEveryThreshold ==
  /\ output.function = "scoreStylometry"
  /\ input.metrics.typeTokenRatio = Finite(500)
  /\ input.metrics.functionWordRatio = Finite(500)
  /\ input.metrics.polysyllableRatio = Finite(150)
  /\ input.metrics.averageSentenceLength = Finite(150)
  /\ output.score = 50
(***************************************************************************)
(* C21: for every text of at least 10 words with more than 5 markers per   *)
(* 100 words the fingerprint score is at least 90 and the warnings of the  *)
(* details include the one about the high density of markers; for every    *)
(* text the normalized score is min(100, round(density * 25)), where       *)
(* density = 100 * totalMarkers / wordCount, and the warning is present    *)
(* exactly when density > 2.                                               *)
(***************************************************************************)
HighDensityWarning == Message("High density of AI-typical phrases and patterns", 0)

\* is `message` one of the messages of the list
Includes(messages, message) == \E k \in DOMAIN messages : messages[k] = message

\* is `score` the value min(100, round(25 * 100 * totalMarkers / wordCount)),
\* the rounding that of Math.round (halves go up)
RoundedDensityScore(score, totalMarkers, wordCount) ==
  LET Within(rounded) == /\ 2 * rounded * wordCount - wordCount <= 2 * 2500 * totalMarkers
                         /\ 2 * 2500 * totalMarkers < 2 * rounded * wordCount + wordCount
  IN \/ score < 100 /\ Within(score)
     \/ score = 100 /\ \E rounded \in 100..(2500 * totalMarkers + 1) : Within(rounded)

C21_DensityScoredAndWarned ==
  output.function = "detect" =>
    LET totalMarkers == input.totalMarkers
        wordCount == input.wordCount
        warned == Includes(output.details.warnings, HighDensityWarning)
    IN /\ output.metrics.totalMarkers = totalMarkers
       /\ RoundedDensityScore(output.metrics.normalizedScore, totalMarkers, wordCount)
       /\ warned <=> 100 * totalMarkers > 2 * wordCount
       /\ (wordCount >= 10 /\ 100 * totalMarkers > 5 * wordCount) =>
             (output.score >= 90 /\ warned)

\* a text of at least 10 words with just over 5 markers per 100 words has
\* been scored 100 and warned about
C21_JustOverFive ==
  /\ output.function = "detect"
  /\ input.wordCount >= 10
  /\ 100 * input.totalMarkers > 5 * input.wordCount
  /\ 100 * input.totalMarkers < 6 * input.wordCount
  /\ output.score = 100
  /\ Includes(output.details.warnings, HighDensityWarning)

(***************************************************************************)
(* C22: for every text of at least 10 words all of whose sentences have    *)
(* the same number of words, the burstiness index is 0 and the burstiness  *)
(* score is at least 90.                                                   *)
(***************************************************************************)
\* the number of words of each sentence of the text, as the analyzer splits it
SentenceLengths(text) ==
  [i \in 1..Len(extractSentences(text)) |-> countWords(extractSentences(text)[i])]

\* do all the sentences of the text have the same number of words
EqualSentences(text) ==
  \A i, j \in DOMAIN SentenceLengths(text) : SentenceLengths(text)[i] = SentenceLengths(text)[j]

C22_EqualSentencesScoreHigh ==
  (FullAnalysis /\ EqualSentences(call.text)) =>
    /\ call.result.metrics.burstiness.burstinessIndex = 0
    /\ call.result.scores.burstiness >= 90

\* a text of three sentences of four words each has been analyzed
C22_ThreeEqualSentences ==
  /\ FullAnalysis
  /\ Len(SentenceLengths(call.text)) = 3
  /\ EqualSentences(call.text)
  /\ SentenceLengths(call.text)[1] = 4
  /\ call.result.metrics.burstiness.burstinessIndex = 0
  /\ call.result.scores.burstiness = 90

(***************************************************************************)
(* C23: NGramModel.probability terminates for every word and every         *)
(* context: each call that backoffProbability makes has a strictly shorter *)
(* context, a context that the model has not seen gets the probability of  *)
(* the next-shorter one, and for a context of at most 2 words the call     *)
(* returns after at most 2 calls of backoffProbability.                    *)
(***************************************************************************)
\* the outermost call of probability has returned
ProbabilityReturned == output.function = "probability" /\ output.at = "returned"

\* the model has not seen the context
Unseen(context) == GetOr0(TrainedModel.contextCounts, JoinWords(context)) = 0

BackoffShortens ==
  (output # NoFunction /\ output.function = "probability" /\ output.at = "backoffProbability"
     /\ output'.at = "probability")
    => Len(output'.context) < Len(output.context)

BackoffBounded ==
  ProbabilityReturned =>
    /\ output.backoffs <= Max(1, Len(input.context))
    /\ Len(input.context) <= 2 => output.backoffs <= 2
    /\ output.value = probability(TrainedModel, input.word, input.context)
    /\ Unseen(input.context) =>
          output.value =
            IF Len(input.context) >= 2
            THEN probability(TrainedModel, input.word, Tail(input.context))
            ELSE UnigramProbability(TrainedModel, input.word)

C23_ProbabilityTerminates ==
  /\ [][BackoffShortens]_vars
  /\ []BackoffBounded
  /\ (input.function = "probability") ~> ProbabilityReturned

\* a context of 2 words that the model has not seen has been taken to the
\* unigram probability by 2 calls of backoffProbability
C23_TwoBackoffs ==
  /\ ProbabilityReturned
  /\ Len(input.context) = 2
  /\ Unseen(input.context)
  /\ output.backoffs = 2
  /\ output.context = Tail(input.context)
  /\ output.value = UnigramProbability(TrainedModel, input.word)

(***************************************************************************)
(* C30: for the model trained on the built-in corpus, probability(word,    *)
(* context) is greater than 0 and at most 1 for every word and every       *)
(* context of 0, 1 or 2 words; so every token of a text that calculate     *)
(* scores is counted in tokenCount, the perplexity is at least 1, and the  *)
(* perplexity 100 of "no token with a positive probability" is not         *)
(* returned for want of such a token.                                      *)
(***************************************************************************)
\* is the fraction << numerator, denominator >> greater than 0 and at most 1
PositiveAtMostOne(p) == 0 < p[1] /\ p[1] <= p[2]

\* the probabilities that calculate asks for, one for each token of the text
AskedOf(text) == TokenProbabilities(TrainedModel, PerplexityTokenize(text))

C30_ProbabilityPositiveAtMostOne ==
  /\ (ProbabilityReturned /\ Len(input.context) <= 2) => PositiveAtMostOne(output.value)
  /\ output.function = "scorePerplexity" =>
        /\ \A i \in DOMAIN AskedOf(input.text) : PositiveAtMostOne(AskedOf(input.text)[i])
        /\ Len(PerplexityTokenize(input.text)) >= 5 =>
              /\ output.calculated.tokenCount = Len(PerplexityTokenize(input.text))
              /\ output.calculated.perplexity >= 100

\* a word that the corpus does not have has been given its probability with
\* no context: the 0.1 of the smoothing over the total
C30_UnseenWordAlone ==
  /\ ProbabilityReturned
  /\ input.word = "zzz"
  /\ input.context = << >>
  /\ output.value[1] = 1
  /\ output.value[2] > 1

(***************************************************************************)
(* C29: in every result of detect, totalMarkers = markerWordCount +        *)
(* markerPhraseCount + patternMatchCount = detectedMarkers.length, every   *)
(* marker lies inside the text at its position, and a marker word that the *)
(* source lists more than once ('meticulous', 'meticulously') is counted   *)
(* once for each of its occurrences in the text.                           *)
(***************************************************************************)
\* the offsets at which the word stands in the text as a whole word,
\* whatever its case
Occurrences(text, word) ==
  {p \in 0..Len(text) : /\ LiteralAt(toLowerCase(text), word, p)
                        /\ WordBoundary(text, p)
                        /\ WordBoundary(text, p + Len(word))}

\* the markers of type 'word' of the list whose value is the word, whatever
\* its case
WordMarkers(detectedMarkers, word) ==
  {k \in DOMAIN detectedMarkers : /\ detectedMarkers[k].type = "word"
                                  /\ toLowerCase(detectedMarkers[k].value) = word}

\* the words that AI_MARKER_WORDS lists more than once
ListedTwice ==
  {AI_MARKER_WORD_LIST[i] : i \in {j \in DOMAIN AI_MARKER_WORD_LIST :
     \E k \in DOMAIN AI_MARKER_WORD_LIST : k # j /\ AI_MARKER_WORD_LIST[k] = AI_MARKER_WORD_LIST[j]}}

C29_MarkersCounted ==
  FullAnalysis =>
    LET fingerprint == call.result.metrics.fingerprint
        Inside(marker) ==
          /\ 0 <= marker.position
          /\ marker.position < Len(call.text)
          /\ marker.position + Len(marker.value) <= Len(call.text)
          /\ SubSeq(call.text, marker.position + 1, marker.position + Len(marker.value))
               = marker.value
    IN /\ fingerprint.totalMarkers = fingerprint.markerWordCount
            + fingerprint.markerPhraseCount + fingerprint.patternMatchCount
       /\ fingerprint.totalMarkers = Len(fingerprint.detectedMarkers)
       /\ \A k \in DOMAIN fingerprint.detectedMarkers : Inside(fingerprint.detectedMarkers[k])
       /\ \A word \in ListedTwice :
            Cardinality(WordMarkers(fingerprint.detectedMarkers, word))
              = Cardinality(Occurrences(call.text, word))

\* a text in which 'meticulous' stands twice and 'meticulously' once has
\* been analyzed: 2 markers and 1 marker
C29_MeticulousTwice ==
  /\ FullAnalysis
  /\ Cardinality(Occurrences(call.text, "meticulous")) = 2
  /\ Cardinality(WordMarkers(call.result.metrics.fingerprint.detectedMarkers, "meticulous")) = 2
  /\ Cardinality(WordMarkers(call.result.metrics.fingerprint.detectedMarkers, "meticulously")) = 1
  /\ call.result.metrics.fingerprint.markerWordCount = 4
  /\ call.result.metrics.fingerprint.totalMarkers = 4

\* call p of executeTask has made a task
Sent(p) == p \in DOMAIN promises /\ promises[p].id # << >>

\* the task of call p is waiting for its response
Waiting(p) == Sent(p) /\ promises[p].state = "pending"

\* the worker has posted a response to the task of call p
Responded(p) ==
  Sent(p) /\ \E k \in DOMAIN thread.posted : thread.posted[k].id = promises[p].id

\* the task of call p was rejected by its timeout and is pending no more
TimedOut(p) ==
  /\ Sent(p)
  /\ promises[p].state = "rejected"
  /\ promises[p].message = "Worker task timeout"
  /\ promises[p].id \notin DOMAIN manager.pendingTasks

\* the task of call p was settled by something else than a response: the
\* worker crashed, or terminate() was called
Interrupted(p) ==
  \/ manager.worker = "null"
  \/ Sent(p) /\ promises[p].state = "rejected" /\ promises[p].message = "Worker crashed"

\* C24: a task sent by executeTask to which the worker never responds
\* is eventually rejected with 'Worker task timeout' and removed from
\* pendingTasks (unless the worker crashes or is terminated first).
C24_UnansweredTaskTimesOut ==
  \A p \in 1..MaxTasks :
    Waiting(p) ~> (TimedOut(p) \/ Responded(p) \/ Interrupted(p))

\* the task of call p was rejected because the worker crashed
Crashed(p) ==
  Sent(p) /\ promises[p].state = "rejected" /\ promises[p].message = "Worker crashed"

\* the response to the task of call p has arrived at the main thread
Arrived(p) ==
  /\ Responded(p)
  /\ manager.worker = "Worker"
  /\ \A k \in DOMAIN thread.outbox : thread.outbox[k].id # promises[p].id

\* the error event rejects every pending task and empties pendingTasks
CrashRejectsAll ==
  OnError => /\ \A p \in 1..MaxTasks : Waiting(p) => Crashed(p)'
             /\ manager'.pendingTasks = << >>

\* nothing calls the resolve or reject of a task rejected by the crash
CrashedStays ==
  \A p \in 1..MaxTasks : Crashed(p) => promises'[p] = promises[p]

\* C25: when the worker raises an error event, every task pending at that
\* moment is rejected with 'Worker crashed' and pendingTasks becomes empty;
\* a response that arrives afterwards for one of those ids settles nothing.
C25_CrashRejectsPending == [][CrashRejectsAll /\ CrashedStays]_vars

\* two tasks were rejected by one crash, and the response to the first
\* arrived after it
C25_ResponseAfterCrash ==
  /\ Crashed(1)
  /\ Crashed(2)
  /\ Arrived(1)

\* the ids of the tasks are pairwise distinct
IdsDistinct ==
  \A p, q \in 1..MaxTasks : Sent(p) /\ Sent(q) /\ p # q => promises[p].id # promises[q].id

\* pendingTasks holds a task under its own id, and no task that is settled
PendingUnsettled ==
  \A id \in DOMAIN manager.pendingTasks :
    LET p == manager.pendingTasks[id]
    IN Sent(p) /\ promises[p].id = id /\ promises[p].state = "pending"

\* the resolve and reject of a promise are called at most once in all
SettledOnce ==
  \A p \in DOMAIN promises :
    /\ promises[p].settled <= 1
    /\ promises[p].state = "pending" <=> promises[p].settled = 0

\* what a response does: it settles the pending task of its id as its type
\* says and removes it, and changes no other promise; with no pending task
\* of its id it changes nothing
ResponseSettlesItsTask ==
  OnMessage =>
    LET response == Head(thread.outbox)
        pending == manager.pendingTasks
    IN IF response.id \in DOMAIN pending
       THEN /\ \A p \in DOMAIN promises :
                 IF promises[p].id = response.id
                 THEN /\ promises'[p].state =
                           (IF response.type = "success" THEN "resolved" ELSE "rejected")
                      /\ response.type = "success" => promises'[p].result = response.result
                      /\ promises'[p].settled = 1
                 ELSE promises'[p] = promises[p]
            /\ DOMAIN manager'.pendingTasks = DOMAIN pending \ {response.id}
       ELSE UNCHANGED << manager, promises >>

\* C26: under any interleaving of executeTask calls and worker responses,
\* task ids are pairwise distinct, each response settles only the pending
\* task with the same id, each task is settled at most once (resolved on
\* 'success', rejected on 'error') and is removed from pendingTasks when
\* settled, and a response whose id is not pending is ignored.
C26_ResponsesCorrelated ==
  /\ [](IdsDistinct /\ PendingUnsettled /\ SettledOnce)
  /\ [][ResponseSettlesItsTask]_vars

\* the first task was rejected by its 'error' response and the second
\* resolved by its 'success' response
C26_OneRejectedOneResolved ==
  /\ Len(promises) = 2
  /\ promises[1].state = "rejected"
  /\ promises[1].message = "Unknown operation type: translate"
  /\ promises[2].state = "resolved"
  /\ promises[2].result = << "analyze", 2 >>
  /\ manager.pendingTasks = << >>

\* C27: every promise returned by executeTask is eventually settled: a
\* task still pending when terminate() runs does not stay unsettled for
\* ever.
C27_TerminatedTaskSettles ==
  \A p \in 1..MaxTasks :
    (Waiting(p) /\ manager.worker = "null") ~> (Sent(p) /\ promises[p].state # "pending")

\* the response the handler owes to the k-th request the worker received
Answers(k) ==
  LET request == thread.received[k]
      response == thread.posted[k]
      known == request.type \in {"analyze", "humanize", "rewrite", "check-plagiarism"}
  IN /\ response.id = request.id
     /\ response.type = (IF request.thrown THEN "error" ELSE "success")
     /\ response.type = "success" => known /\ response.result[1] = request.type
     /\ ~known => /\ response.type = "error"
                  /\ response.error = "Unknown operation type: " \o request.type

\* C28: for every request message the worker receives, it posts exactly
\* one response carrying the same id: type 'success' with the result when
\* the handler completes, or type 'error' with a message when the handler
\* throws or the operation type is unknown; never both and never none.
C28_OneResponsePerRequest ==
  /\ Len(thread.posted) = Len(thread.received)
  /\ \A k \in DOMAIN thread.received : Answers(k)

\* the worker has answered a request whose handler returned, and one of an
\* unknown type
C28_SuccessThenUnknownType ==
  /\ Len(thread.received) = 2
  /\ thread.received[1].type = "analyze"
  /\ thread.posted[1].type = "success"
  /\ thread.received[2].type = "translate"
  /\ thread.posted[2].type = "error"

====
